---- MODULE Spec2Model ----
(***************************************************************************)
(* Model of the beam analyser (backend/viga.py, integracion_subtramos.py,  *)
(* calculos.py).                                                           *)
(*                                                                         *)
(* Numbers.  The program computes with Python floats; the model computes   *)
(* the same expressions exactly.  Lengths are integers in a length unit    *)
(* fine enough to hold every grid position of the beams drawn below,       *)
(* forces are integers, and every derived quantity is an exact fraction    *)
(* n/d whose numerator and denominator are arbitrary-size integers         *)
(* ("Big": little-endian digits in base 10^4, all of one sign).            *)
(*                                                                         *)
(* Style.  A value used several times is the parameter of an operator      *)
(* rather than the name of a LET, so that its expression occurs once.      *)
(***************************************************************************)
EXTENDS Integers, Sequences, FiniteSets, TLC

(***************************************************************************)
(* Arbitrary-size integers.                                                *)
(***************************************************************************)
BASE == 100 * 100

\* the tuple of the first n values of f, each evaluated once
Tup(f, n) == SubSeq(f, 1, n)

BNeg(a) == Tup([i \in 1..Len(a) |-> -a[i]], Len(a))

RECURSIVE Strip(_)
Strip(s) == IF s = <<>> THEN s
            ELSE IF s[Len(s)] = 0 THEN Strip(SubSeq(s, 1, Len(s) - 1)) ELSE s

\* floor-carry pass over raw (unbounded, mixed-sign) digits; a negative
\* value is the negation of the pass over the negated digits
RECURSIVE Carry(_, _, _, _)
Carry(raw, i, c, acc) ==
  IF i <= Len(raw)
    THEN Carry(raw, i + 1, (raw[i] + c) \div BASE, Append(acc, (raw[i] + c) % BASE))
  ELSE IF c > 0 THEN Carry(raw, i, c \div BASE, Append(acc, c % BASE))
  ELSE IF c = 0 THEN Strip(acc)
  ELSE BNeg(Carry(BNeg(raw), 1, 0, <<>>))

\* canonical form of the integer whose raw digits are raw
BNorm(raw) == Carry(raw, 1, 0, <<>>)

BZero == <<>>
BSign(a) == IF a = <<>> THEN 0 ELSE IF a[Len(a)] > 0 THEN 1 ELSE -1
BInt(n) == BNorm(<<n>>)
BDig(a, i) == IF i <= Len(a) THEN a[i] ELSE 0
BMax2(m, n) == IF m >= n THEN m ELSE n
BAdd(a, b) ==
  BNorm(Tup([i \in 1..BMax2(Len(a), Len(b)) |-> BDig(a, i) + BDig(b, i)],
            BMax2(Len(a), Len(b))))
BSub(a, b) ==
  BNorm(Tup([i \in 1..BMax2(Len(a), Len(b)) |-> BDig(a, i) - BDig(b, i)],
            BMax2(Len(a), Len(b))))

RECURSIVE BSumProd(_, _, _, _)
BSumProd(a, b, k, i) ==
  IF i > Len(a) \/ i > k THEN 0
  ELSE (IF k + 1 - i <= Len(b) THEN a[i] * b[k + 1 - i] ELSE 0) + BSumProd(a, b, k, i + 1)

BMul(a, b) ==
  IF a = <<>> \/ b = <<>> THEN <<>>
  ELSE BNorm(Tup([k \in 1..(Len(a) + Len(b) - 1) |-> BSumProd(a, b, k, 1)],
                 Len(a) + Len(b) - 1))

\* a * m for a machine integer m of at most five digits
BMulI(a, m) == BNorm(Tup([i \in 1..Len(a) |-> a[i] * m], Len(a)))

BAbs(a) == IF BSign(a) < 0 THEN BNeg(a) ELSE a
BLt(a, b) == BSign(BSub(a, b)) < 0
BLe(a, b) == BSign(BSub(a, b)) <= 0

RECURSIVE BPow10(_)
BPow10(k) == IF k = 0 THEN <<1>> ELSE BMulI(BPow10(k - 1), 10)

RECURSIVE BPow(_, _)
BPow(b, e) == IF e = 0 THEN <<1>> ELSE BMul(b, BPow(b, e - 1))

\* the negation of every entry of s
BNegTodos(s) == Tup([i \in 1..Len(s) |-> BNeg(s[i])], Len(s))

RECURSIVE BSum(_)
BSum(s) == IF s = <<>> THEN BZero ELSE BAdd(s[1], BSum(Tail(s)))

RECURSIVE BProd(_)
BProd(s) == IF s = <<>> THEN <<1>> ELSE BMul(s[1], BProd(Tail(s)))

(***************************************************************************)
(* Exact fractions n/d of Big integers, d > 0.                             *)
(***************************************************************************)
Frac(n, d) == [n |-> n, d |-> d]
QEq(p, q) == BMul(p.n, q.d) = BMul(q.n, p.d)
QLt(p, q) == BLt(BMul(p.n, q.d), BMul(q.n, p.d))
QLe(p, q) == BLe(BMul(p.n, q.d), BMul(q.n, p.d))
QAdd(p, q) == Frac(BAdd(BMul(p.n, q.d), BMul(q.n, p.d)), BMul(p.d, q.d))
QSub(p, q) == QAdd(p, Frac(BNeg(q.n), q.d))
QAbs(p) == Frac(BAbs(p.n), p.d)
\* abs(p) < 10^-k
QMenorQue(p, k) == BLt(BMul(BAbs(p.n), BPow10(k)), p.d)

(***************************************************************************)
(* Loads (viga.py).  A load is a record whose field "tipo" is the name of  *)
(* its class.  Positions are integers in the length unit u = 1/escala m;   *)
(* a magnitude is a force in N, a couple in N*u, an intensity in N/u, so   *)
(* the program's own input is the same beam expressed in metres.           *)
(* total_load and moment_about are returned as numerators over 6.          *)
(***************************************************************************)
CargaPuntual(magnitud, posicion) ==
  [tipo |-> "CargaPuntual", magnitud |-> magnitud, posicion |-> posicion]
CargaMomento(magnitud, posicion, en_vano) ==
  [tipo |-> "CargaMomento", magnitud |-> magnitud, posicion |-> posicion,
   en_vano |-> en_vano]
CargaUniforme(intensidad, inicio, fin) ==
  [tipo |-> "CargaUniforme", intensidad |-> intensidad, inicio |-> inicio, fin |-> fin]
CargaTrapezoidal(w1, w2, inicio, fin) ==
  [tipo |-> "CargaTrapezoidal", intensidad_inicio |-> w1, intensidad_fin |-> w2,
   inicio |-> inicio, fin |-> fin]

EsDistribuida(c) == c.tipo \in {"CargaUniforme", "CargaTrapezoidal"}

\* 6 * c.total_load()
total_load(c) ==
  CASE c.tipo = "CargaPuntual" -> BInt(6 * c.magnitud)
    [] c.tipo = "CargaMomento" -> BZero
    [] c.tipo = "CargaUniforme" -> BMulI(BInt(6 * c.intensidad), c.fin - c.inicio)
    [] c.tipo = "CargaTrapezoidal" ->
         BMulI(BInt(3 * (c.intensidad_inicio + c.intensidad_fin)), c.fin - c.inicio)

\* 6 * c.moment_about(origen)
moment_about(c, origen) ==
  CASE c.tipo = "CargaPuntual" -> BMulI(BInt(6 * c.magnitud), c.posicion - origen)
    [] c.tipo = "CargaMomento" -> BInt(6 * c.magnitud)
    [] c.tipo = "CargaUniforme" ->
         \* total_load * ((inicio + fin)/2 - origen)
         BMulI(BMulI(BInt(3 * c.intensidad), c.fin - c.inicio),
               c.inicio + c.fin - 2 * origen)
    [] c.tipo = "CargaTrapezoidal" ->
         LET w1 == c.intensidad_inicio
             w2 == c.intensidad_fin
             L  == c.fin - c.inicio
         IN  IF w1 = w2
               THEN BMulI(BMulI(BInt(3 * w1), L), c.inicio + c.fin - 2 * origen)
             ELSE IF w1 + w2 = 0 THEN BZero
             ELSE \* total_load * (inicio + L(w1 + 2 w2)/(3(w1 + w2)) - origen)
                  BAdd(BMulI(BMulI(BInt(3 * (w1 + w2)), L), c.inicio - origen),
                       BMulI(BMulI(BInt(w1 + 2 * w2), L), L))

suma_cargas(cargas) ==
  BSum(Tup([i \in 1..Len(cargas) |-> total_load(cargas[i])], Len(cargas)))
momentos(cargas, origen) ==
  BSum(Tup([i \in 1..Len(cargas) |-> moment_about(cargas[i], origen)], Len(cargas)))

(***************************************************************************)
(* Supports.                                                               *)
(***************************************************************************)
Dos(k) == IF k < 10 THEN "0" \o ToString(k) ELSE ToString(k)

\* hundredths of p/esc rounded to nearest, an exact half to the even neighbour
Centesimas(p, esc) ==
  IF 2 * ((100 * p) % esc) > esc
     \/ (2 * ((100 * p) % esc) = esc /\ ((100 * p) \div esc) % 2 = 1)
    THEN (100 * p) \div esc + 1 ELSE (100 * p) \div esc

\* f"R_{posicion:.2f}" for the position p/esc metres
NombrePorDefecto(p, esc) ==
  "R_" \o ToString(Centesimas(p, esc) \div 100) \o "." \o Dos(Centesimas(p, esc) % 100)

\* Apoyo(posicion, nombre) after __post_init__ (posicion >= 0)
Apoyo(posicion, nombre, esc) ==
  [posicion |-> posicion,
   nombre |-> IF nombre = "" THEN NombrePorDefecto(posicion, esc) ELSE nombre]

AbsI(k) == IF k < 0 THEN -k ELSE k

\* abs(p - q) < 1e-3 metres
MuyCercanos(p, q, esc) == 1000 * AbsI(p - q) < esc

\* list.sort(key=posicion) of a sorted list with one appended element (stable)
RECURSIVE Insertar(_, _)
Insertar(lista, a) ==
  IF lista = <<>> THEN <<a>>
  ELSE IF lista[Len(lista)].posicion <= a.posicion THEN Append(lista, a)
  ELSE Append(Insertar(SubSeq(lista, 1, Len(lista) - 1), a), lista[Len(lista)])

RECURSIVE Ordenar(_)
Ordenar(lista) ==
  IF lista = <<>> THEN <<>>
  ELSE Insertar(Ordenar(SubSeq(lista, 1, Len(lista) - 1)), lista[Len(lista)])

(***************************************************************************)
(* Dictionaries keyed by support name: a later pair with the same key      *)
(* replaces the earlier value, as a Python dict literal or assignment.     *)
(***************************************************************************)
Ultimo(pares, k) ==
  CHOOSE i \in 1..Len(pares) :
    pares[i][1] = k /\ \A j \in (i + 1)..Len(pares) : pares[j][1] # k
DictDe(pares) ==
  [k \in {pares[i][1] : i \in 1..Len(pares)} |-> pares[Ultimo(pares, k)][2]]

None == [tipo |-> "None"]
\* a reactions dictionary: val[nombre] / den newtons
Reacciones(den, pares) == [tipo |-> "dict", den |-> den, val |-> DictDe(pares)]

\* calcular_reacciones with one support
reacciones_1(apoyos, cargas) ==
  Reacciones(BInt(6), << <<apoyos[1].nombre, suma_cargas(cargas)>> >>)

\* calcular_reacciones with two supports, for suma = 6 * suma_cargas and
\* mom = 6 * momentos about the left support: R_der = momentos / distancia,
\* R_izq = suma_cargas - R_der, over 6 * distancia
equilibrio(apoyo_izq, apoyo_der, suma, mom) ==
  Reacciones(BInt(6 * (apoyo_der.posicion - apoyo_izq.posicion)),
             << <<apoyo_izq.nombre,
                  BSub(BMulI(suma, apoyo_der.posicion - apoyo_izq.posicion), mom)>>,
                <<apoyo_der.nombre, mom>> >>)

reacciones_2(apoyos, cargas) ==
  equilibrio(apoyos[1], apoyos[2], suma_cargas(cargas),
             momentos(cargas, apoyos[1].posicion))

(***************************************************************************)
(* Symbolic path of a beam on two supports (_construir_cortante_expr,      *)
(* _construir_expresiones, evaluar): V is a sum of Macaulay terms, M and   *)
(* EI*y are its exact antiderivatives from 0, and C1, C2 make y vanish at  *)
(* the two supports.  A term stands for c * <x - a>^p / p! in EI*y; all    *)
(* coefficients share the denominator D0 = 6 * distancia * KProd(cargas).  *)
(***************************************************************************)
\* the divisors introduced by the slopes k = (w2 - w1)/(b - a)
KFactor(c) == IF c.tipo = "CargaTrapezoidal" THEN BInt(c.fin - c.inicio) ELSE <<1>>
KProd(cargas) == BProd(Tup([i \in 1..Len(cargas) |-> KFactor(cargas[i])], Len(cargas)))
KOtros(cargas, i) ==
  BProd(Tup([j \in 1..Len(cargas) |-> IF j = i THEN <<1>> ELSE KFactor(cargas[j])],
            Len(cargas)))

Term(c, a, p) == [c |-> c, a |-> a, p |-> p]

esta_en_apoyo(a, apoyos) == \E i \in 1..Len(apoyos) : apoyos[i].posicion = a

\* a couple enters V, M unless it sits on a support and is not en_vano
momento_aplicado(c, apoyos) ==
  c.tipo = "CargaMomento" /\ ~(esta_en_apoyo(c.posicion, apoyos) /\ ~c.en_vano)

\* terms of the load c: shear_expression integrated three times, or the jump
\* of a couple integrated twice; k = D0 and ko = D0 without the divisor of c
shear_terms(c, apoyos, k, ko) ==
  CASE c.tipo = "CargaPuntual" -> << Term(BMulI(k, -c.magnitud), c.posicion, 3) >>
    [] c.tipo = "CargaMomento" ->
         IF momento_aplicado(c, apoyos)
           THEN << Term(BMul(k, BInt(c.magnitud)), c.posicion, 2) >> ELSE <<>>
    [] c.tipo = "CargaUniforme" ->
         << Term(BMulI(k, -c.intensidad), c.inicio, 4),
            Term(BMulI(k, c.intensidad), c.fin, 4) >>
    [] c.tipo = "CargaTrapezoidal" ->
         << Term(BMulI(k, -c.intensidad_inicio), c.inicio, 4),
            Term(BMulI(ko, -(c.intensidad_fin - c.intensidad_inicio)), c.inicio, 5),
            Term(BMulI(k, c.intensidad_inicio), c.fin, 4),
            Term(BMulI(ko, c.intensidad_fin - c.intensidad_inicio), c.fin, 5) >>

RECURSIVE Aplanar(_)
Aplanar(ss) == IF ss = <<>> THEN <<>> ELSE ss[1] \o Aplanar(Tail(ss))

\* 6 * distancia
Seis_d(apoyos) == 6 * (apoyos[2].posicion - apoyos[1].posicion)

\* the first reaction enters V as a constant from x = 0, the second with a
\* Heaviside at its support; both are read from the dictionary r by name
expresiones_con(apoyos, cargas, r, kp) ==
  << Term(BMul(r.val[apoyos[1].nombre], kp), 0, 3),
     Term(BMul(r.val[apoyos[2].nombre], kp), apoyos[2].posicion, 3) >>
  \o Aplanar(Tup([i \in 1..Len(cargas) |->
                    shear_terms(cargas[i], apoyos, BMulI(kp, Seis_d(apoyos)),
                                BMulI(KOtros(cargas, i), Seis_d(apoyos)))], Len(cargas)))

_construir_expresiones(apoyos, cargas) ==
  expresiones_con(apoyos, cargas, reacciones_2(apoyos, cargas), KProd(cargas))

\* 120/p!
FactInv(p) == CASE p = 2 -> 60 [] p = 3 -> 20 [] p = 4 -> 5 [] p = 5 -> 1

\* numerator over 120 * D0 * q^5 of the particular integral at x = X/q
PHat(terms, X, q) ==
  BSum(Tup([j \in 1..Len(terms) |->
              IF X - q * terms[j].a <= 0 THEN BZero
              ELSE BMul(BMulI(terms[j].c, FactInv(terms[j].p)),
                        BMul(BPow(BInt(X - q * terms[j].a), terms[j].p),
                             BPow(BInt(q), 5 - terms[j].p)))], Len(terms)))

\* numerator of EI*y(X/q) over 120 * D0 * q^5 * q * distancia, for supports
\* at a1/q and a2/q
deflexion_simbolica(terms, a1, a2, X, q) ==
  BSub(BMul(PHat(terms, X, q), BInt(a2 - a1)),
       BAdd(BMul(PHat(terms, a1, q), BInt(a2 - X)),
            BMul(PHat(terms, a2, q), BInt(X - a1))))

\* the column "deflexion" at the samples Xs
deflexion_en(terms, apoyos, Xs, q) ==
  Tup([i \in 1..Len(Xs) |->
         deflexion_simbolica(terms, q * apoyos[1].posicion, q * apoyos[2].posicion,
                             Xs[i], q)], Len(Xs))

RECURSIVE GCD(_, _)
GCD(a, b) == IF b = 0 THEN a ELSE GCD(b, a % b)

\* np.argmin(np.abs(linspace(0, L, q + 1) - pos)): the first nearest sample;
\* when two samples are equally near in exact arithmetic the rounding of the
\* floats decides, so tb in {0, 1} selects between them
argmin_x(L, q, pos, tb) ==
  IF (q * pos) \div L >= q THEN q
  ELSE IF L * ((q * pos) \div L + 1) - q * pos < q * pos - L * ((q * pos) \div L)
          \/ (L * ((q * pos) \div L + 1) - q * pos = q * pos - L * ((q * pos) \div L)
              /\ tb = 1)
    THEN (q * pos) \div L + 1
  ELSE (q * pos) \div L

(***************************************************************************)
(* Determinants and Cramer's rule over Big (np.linalg.solve).              *)
(***************************************************************************)
Menor(m, col) ==
  Tup([i \in 1..(Len(m) - 1) |->
         Tup([j \in 1..(Len(m) - 1) |-> m[i + 1][IF j < col THEN j ELSE j + 1]],
             Len(m) - 1)], Len(m) - 1)

RECURSIVE Det(_)
Det(m) ==
  IF Len(m) = 0 THEN <<1>>
  ELSE IF Len(m) = 1 THEN m[1][1]
  ELSE BSum(Tup([j \in 1..Len(m) |->
                   BMulI(BMul(m[1][j], Det(Menor(m, j))), IF j % 2 = 1 THEN 1 ELSE -1)],
                Len(m)))

ReemplazarColumna(m, col, b) ==
  Tup([i \in 1..Len(m) |->
         Tup([j \in 1..Len(m) |-> IF j = col THEN b[i] ELSE m[i][j]], Len(m))], Len(m))

\* the solution num[i] / den of a x = b given det = Det(a); den = 0 when a
\* is singular
solve_con(a, b, det) ==
  [den |-> BAbs(det),
   num |-> Tup([i \in 1..Len(a) |->
                  BMulI(Det(ReemplazarColumna(a, i, b)), BSign(det))], Len(a))]

\* np.linalg.solve(a, b)
solve(a, b) == solve_con(a, b, Det(a))

(***************************************************************************)
(* calcular_reacciones (without the memo): a dictionary, or the exception  *)
(* raised.                                                                 *)
(***************************************************************************)
ValueError == [tipo |-> "ValueError"]
RuntimeError == [tipo |-> "RuntimeError"]

\* the validation of agregar_carga
fuera_de_la_viga(c, longitud) ==
  IF EsDistribuida(c) THEN c.fin > longitud ELSE c.posicion > longitud

\* samples of generar_dataframe(viga, num_puntos=1000): linspace(0, L, 1000)
num_puntos_flex == 1000

\* abs(r) < 1e-12 for r = n/d, d > 0
Insignificante(n, d) == BLt(BMul(BAbs(n), BPow10(12)), d)

\* the sample nearest to each of the supports red, as the numerator of
\* x = X / (q / g) for g = GCD(longitud, q)
muestras_cercanas(red, longitud, q, tb) ==
  Tup([i \in 1..Len(red) |->
         (longitud \div GCD(longitud, q)) * argmin_x(longitud, q, red[i].posicion, tb)],
      Len(red))

\* Paso 2: deflections of the primary beam under the loads at the samples Xs
\* (numerators over 720 d^2 q^6 KProd(cargas))
deflexiones_cargas(prim, cargas, Xs, q) ==
  deflexion_en(_construir_expresiones(prim, cargas), prim, Xs, q)

\* Paso 3: column j holds the deflections under a unit upward force at the
\* redundant j, brought to the denominator of deflexiones_cargas
matriz_flexibilidad(prim, cargas, red, Xs, q) ==
  Tup([i \in 1..Len(red) |->
         Tup([j \in 1..Len(red) |->
                BMul(deflexion_en(_construir_expresiones(
                                    prim, << CargaPuntual(-1, red[j].posicion) >>),
                                  prim, << Xs[i] >>, q)[1],
                     KProd(cargas))], Len(red))], Len(red))

\* Paso 5 with the redundants applied as downward forces CargaPuntual(R_i)
reacciones_por_redundantes_hacia_abajo(prim, red, R) ==
  equilibrio(prim[1], prim[2],
             BSum(Tup([i \in 1..Len(red) |-> BMulI(R.num[i], 6)], Len(red))),
             BSum(Tup([i \in 1..Len(red) |->
                         BMulI(BMulI(R.num[i], 6),
                               red[i].posicion - prim[1].posicion)], Len(red))))

\* Paso 5: the reactions of the primary beam under CargaPuntual(-R_i) at the
\* redundants, numerators over 6 * distancia * R.den
reacciones_por_redundantes(prim, red, R) ==
  equilibrio(prim[1], prim[2],
             BSum(Tup([i \in 1..Len(red) |-> BMulI(R.num[i], -6)], Len(red))),
             BSum(Tup([i \in 1..Len(red) |->
                         BMulI(BMulI(R.num[i], -6),
                               red[i].posicion - prim[1].posicion)], Len(red))))

\* the final dictionary without the effect of the redundants on the extremes
superposicion_sin_redundantes(prim, red, rp, rq, R) ==
  Reacciones(BMulI(R.den, Seis_d(prim)),
             << <<prim[1].nombre, BMul(rp.val[prim[1].nombre], R.den)>>,
                <<prim[2].nombre, BMul(rp.val[prim[2].nombre], R.den)>> >>
             \o Tup([i \in 1..Len(red) |->
                       <<red[i].nombre, BMulI(R.num[i], Seis_d(prim))>>], Len(red)))

\* the final dictionary: the extremes by superposition, then the redundants
superposicion(prim, red, rp, rq, R) ==
  Reacciones(BMulI(R.den, Seis_d(prim)),
             << <<prim[1].nombre,
                  BAdd(BMul(rp.val[prim[1].nombre], R.den), rq.val[prim[1].nombre])>>,
                <<prim[2].nombre,
                  BAdd(BMul(rp.val[prim[2].nombre], R.den), rq.val[prim[2].nombre])>> >>
             \o Tup([i \in 1..Len(red) |->
                       <<red[i].nombre, BMulI(R.num[i], Seis_d(prim))>>], Len(red)))

\* a mod m and a / m for a Big a that m divides, from the leading digit
RECURSIVE BResto(_, _, _, _)
BResto(a, i, r, m) == IF i = 0 THEN r ELSE BResto(a, i - 1, (r * BASE + a[i]) % m, m)

RECURSIVE BCociente(_, _, _, _, _)
BCociente(a, i, r, m, acc) ==
  IF i = 0 THEN BNorm(acc)
  ELSE BCociente(a, i - 1, (r * BASE + a[i]) % m, m, <<(r * BASE + a[i]) \div m>> \o acc)

\* the solution R = num / den of the system with the common factors of den
\* and num among Divisores removed: the same fractions with shorter numbers
Divisores == <<BASE, 16, 2, 81, 3, 125, 5, 7, 11, 13, 37>>

RECURSIVE Simplificar(_, _)
Simplificar(R, j) ==
  IF j > Len(Divisores) \/ R.den = BZero THEN R
  ELSE IF /\ BResto(R.den, Len(R.den), 0, Divisores[j]) = 0
          /\ \A i \in 1..Len(R.num) :
               BResto(R.num[i], Len(R.num[i]), 0, Divisores[j]) = 0
    THEN Simplificar([den |-> BCociente(R.den, Len(R.den), 0, Divisores[j], <<>>),
                      num |-> Tup([i \in 1..Len(R.num) |->
                                     BCociente(R.num[i], Len(R.num[i]), 0, Divisores[j],
                                               <<>>)], Len(R.num))], j)
  ELSE Simplificar(R, j + 1)

\* Pasos 4 to 6 returning the reactions of the primary beam, instead of
\* raising, when the matrix is singular
resolver_redundantes_parcial(prim, red, cargas, R) ==
  IF R.den = BZero THEN reacciones_2(prim, cargas)
  ELSE IF \E i \in 1..Len(red) : Insignificante(R.num[i], R.den) THEN RuntimeError
  ELSE superposicion(prim, red, reacciones_2(prim, cargas),
                     reacciones_por_redundantes(prim, red, R), R)

\* Pasos 4 to 6 for the solution R of the compatibility system; a singular
\* matrix or a CargaPuntual of magnitude below 1e-12 raises inside the try
resolver_redundantes(prim, red, cargas, R) ==
  IF R.den = BZero THEN RuntimeError
  ELSE IF \E i \in 1..Len(red) : Insignificante(R.num[i], R.den) THEN RuntimeError
  ELSE superposicion(prim, red, reacciones_2(prim, cargas),
                     reacciones_por_redundantes(prim, red, R), R)

\* the flexibility method with the samples Xs of the redundants
flexibilidad(prim, red, cargas, Xs, q) ==
  resolver_redundantes(prim, red, cargas,
    Simplificar(solve(matriz_flexibilidad(prim, cargas, red, Xs, q),
                      BNegTodos(deflexiones_cargas(prim, cargas, Xs, q))), 1))

reacciones_hiperestaticas(apoyos, cargas, longitud, tb) ==
  IF \E i \in 1..Len(cargas) : fuera_de_la_viga(cargas[i], longitud) THEN RuntimeError
  ELSE flexibilidad(<< apoyos[1], apoyos[Len(apoyos)] >>,
                    SubSeq(apoyos, 2, Len(apoyos) - 1), cargas,
                    muestras_cercanas(SubSeq(apoyos, 2, Len(apoyos) - 1), longitud,
                                      num_puntos_flex - 1, tb),
                    (num_puntos_flex - 1) \div GCD(longitud, num_puntos_flex - 1))

reacciones_de(apoyos, cargas, longitud, tb) ==
  IF Len(apoyos) = 0 THEN ValueError
  ELSE IF Len(apoyos) = 1 THEN reacciones_1(apoyos, cargas)
  ELSE IF Len(apoyos) = 2 THEN
    IF apoyos[2].posicion = apoyos[1].posicion THEN ValueError
    ELSE reacciones_2(apoyos, cargas)
  ELSE reacciones_hiperestaticas(apoyos, cargas, longitud, tb)

\* sum(reacciones.values()) as a fraction
RECURSIVE SumaValores(_, _)
SumaValores(f, S) ==
  IF S = {} THEN BZero
  ELSE BAdd(f[CHOOSE k \in S : TRUE], SumaValores(f, S \ {CHOOSE k \in S : TRUE}))
suma_reacciones(r) == Frac(SumaValores(r.val, DOMAIN r.val), r.den)

(***************************************************************************)
(* Arrays of fractions with one denominator: [d |-> Big, v |-> <<Big>>].   *)
(***************************************************************************)
Arr(d, v) == [d |-> d, v |-> v]
En(a, k) == Frac(a.v[k], a.d)

RECURSIVE CumTrapzAcc(_, _, _, _)
CumTrapzAcc(v, xs, k, acc) ==
  IF Len(acc) >= Len(v) THEN acc
  ELSE CumTrapzAcc(v, xs, k + 1,
         Append(acc, BAdd(acc[k - 1], BMulI(BAdd(v[k - 1], v[k]), xs[k] - xs[k - 1]))))

\* cumulative_trapezoid(v, xs, initial=0): numerators over twice the
\* denominator of v
CumTrapz(v, xs) == IF v = <<>> THEN <<>> ELSE CumTrapzAcc(v, xs, 2, << BZero >>)

\* cumulative_trapezoid(a, x, initial=0) for the samples x = X / q
Integral(a, X, q) == Arr(BMulI(a.d, 2 * q), CumTrapz(a.v, X))

(***************************************************************************)
(* _evaluar_numerico(num_puntos) for a beam whose reactions are r.  The    *)
(* samples are x_k = X_k / q with X_k = longitud * k and q = num_puntos-1. *)
(***************************************************************************)
\* np.linspace(0, L, num_puntos) times q
linspace(L, num_puntos) == Tup([k \in 1..num_puntos |-> L * (k - 1)], num_puntos)

\* sp.Heaviside(val, 0) and <X - q a>^n q^(2-n)
H0(val) == IF val > 0 THEN 1 ELSE 0
Mac(X, a, n, q) ==
  IF X - q * a <= 0 THEN BZero
  ELSE BMul(BPow(BInt(X - q * a), n), BPow(BInt(q), 2 - n))

\* numerator of c.shear_expression at X/q over 2 * KProd * q^2, for
\* k = 2 * KProd and ko = k / (2 * KFactor(c))
shear_expression(c, X, q, k, ko) ==
  CASE c.tipo = "CargaPuntual" ->
         BMul(BMulI(k, -c.magnitud * H0(X - q * c.posicion)), BPow(BInt(q), 2))
    [] c.tipo = "CargaMomento" -> BZero
    [] c.tipo = "CargaUniforme" ->
         BMul(BMulI(k, c.intensidad),
              BSub(Mac(X, c.fin, 1, q), Mac(X, c.inicio, 1, q)))
    [] c.tipo = "CargaTrapezoidal" ->
         BAdd(BMul(BMulI(k, c.intensidad_inicio),
                   BSub(Mac(X, c.fin, 1, q), Mac(X, c.inicio, 1, q))),
              BMul(BMulI(ko, c.intensidad_fin - c.intensidad_inicio),
                   BSub(Mac(X, c.fin, 2, q), Mac(X, c.inicio, 2, q))))

\* V_expr at X/q over r.den * 2 * KProd * q^2: the first reaction, the loads,
\* the other reactions behind their Heaviside; kq = 2 * KProd * q^2
_construir_cortante_expr(aps, cgs, r, X, q, kq) ==
  BAdd(BMul(kq, BSum(Tup([j \in 1..Len(aps) |->
                            IF j = 1 \/ X - q * aps[j].posicion > 0
                              THEN r.val[aps[j].nombre] ELSE BZero], Len(aps)))),
       BMul(r.den, BSum(Tup([i \in 1..Len(cgs) |->
                               shear_expression(cgs[i], X, q, BMulI(KProd(cgs), 2),
                                                KOtros(cgs, i))], Len(cgs)))))

V_vals_con(aps, cgs, r, X, q, kq) ==
  Arr(BMul(r.den, kq),
      Tup([k \in 1..Len(X) |-> _construir_cortante_expr(aps, cgs, r, X[k], q, kq)],
          Len(X)))

V_vals(aps, cgs, r, X, q) ==
  V_vals_con(aps, cgs, r, X, q, BMul(BMulI(KProd(cgs), 2), BPow(BInt(q), 2)))

\* twice the step of a couple at sample X: 0 before, 1 on it, 2 after
Escalon2(X, a, q) == IF X < q * a THEN 0 ELSE IF X = q * a THEN 1 ELSE 2

\* sum over the applied couples of magnitud * 2 * step
saltos_momento(aps, cgs, X, q) ==
  BSum(Tup([i \in 1..Len(cgs) |->
              IF momento_aplicado(cgs[i], aps)
                THEN BInt(cgs[i].magnitud * Escalon2(X, cgs[i].posicion, q))
                ELSE BZero], Len(cgs)))

\* M = cumulative_trapezoid(V) + jumps, for Mi = Integral(V) whose
\* denominator is 2 * q * V.d
M_vals(aps, cgs, X, q, V, Mi) ==
  Arr(Mi.d, Tup([k \in 1..Len(X) |->
                   BAdd(Mi.v[k],
                        BMul(BMulI(V.d, q), saltos_momento(aps, cgs, X[k], q)))],
                Len(X)))

\* index (from 1) of the sample nearest to the support j, 0 without it
idx_cercano(aps, j, L, q, tb) ==
  IF j <= Len(aps) THEN argmin_x(L, q, aps[j].posicion, tb) + 1 ELSE 0

\* the boundary correction: a line through the samples of the first two
\* supports, or a shift with one support; y = cumulative integral of theta
y_vals(aps, y, idx1, idx2) ==
  IF Len(aps) >= 2
    THEN IF idx2 # idx1
           THEN Arr(BMulI(y.d, AbsI(idx2 - idx1)),
                    Tup([k \in 1..Len(y.v) |->
                           BMulI(BSub(BMulI(BSub(y.v[k], y.v[idx1]), idx2 - idx1),
                                      BMulI(BSub(y.v[idx2], y.v[idx1]), k - idx1)),
                                 IF idx2 < idx1 THEN -1 ELSE 1)], Len(y.v)))
         ELSE y
  ELSE IF Len(aps) = 1
    THEN Arr(y.d, Tup([k \in 1..Len(y.v) |-> BSub(y.v[k], y.v[idx1])], Len(y.v)))
  ELSE y

\* the dictionary returned: V, M in N and N*u, theta and deflexion times EI
Resultados(x, q, V, M, theta, deflexion) ==
  [tipo |-> "resultados", q |-> q, x |-> x, V |-> V, M |-> M, theta |-> theta,
   deflexion |-> deflexion]

numerico_theta(aps, L, q, tb, X, V, M, theta) ==
  Resultados(X, q, V, M, theta,
             y_vals(aps, Integral(theta, X, q),
                    idx_cercano(aps, 1, L, q, tb), idx_cercano(aps, 2, L, q, tb)))

numerico_M(aps, L, q, tb, X, V, M) ==
  numerico_theta(aps, L, q, tb, X, V, M, Integral(M, X, q))

numerico_V(aps, cgs, L, q, tb, X, V) ==
  numerico_M(aps, L, q, tb, X, V, M_vals(aps, cgs, X, q, V, Integral(V, X, q)))

_evaluar_numerico(aps, cgs, r, L, num_puntos, tb) ==
  numerico_V(aps, cgs, L, num_puntos - 1, tb, linspace(L, num_puntos),
             V_vals(aps, cgs, r, linspace(L, num_puntos), num_puntos - 1))

\* the samples of the symbolic path: EI * deflexion only
resultados_simbolicos(aps, cgs, L, num_puntos) ==
  [tipo |-> "resultados", q |-> num_puntos - 1, x |-> linspace(L, num_puntos),
   deflexion |->
     Arr(BMul(BMulI(BMulI(BMulI(KProd(cgs), 120), Seis_d(aps)),
                    (num_puntos - 1) * (aps[2].posicion - aps[1].posicion)),
              BPow(BInt(num_puntos - 1), 5)),
         deflexion_en(_construir_expresiones(aps, cgs), aps, linspace(L, num_puntos),
                      num_puntos - 1))]


(***************************************************************************)
(* evaluar_por_subtramos(viga, puntos_por_tramo).  The grid points are     *)
(* x_k = X_k / Q units, where Q makes the halo eps = L / min_steps, its    *)
(* half and every np.linspace point an integer.  An array keeps one        *)
(* denominator; theta and deflexion are kept times EI.                     *)
(***************************************************************************)
min_steps == 2400

\* a * m for any machine integer m
BMulE(a, m) == IF AbsI(m) < 200000 THEN BMulI(a, m) ELSE BMul(a, BInt(m))

\* sorted(S) for a set of integers
RECURSIVE Ascendente(_)
Ascendente(S) ==
  IF S = {} THEN <<>>
  ELSE <<CHOOSE m \in S : \A n \in S : m <= n>>
       \o Ascendente(S \ {CHOOSE m \in S : \A n \in S : m <= n})

PosicionesDe(c) == IF EsDistribuida(c) THEN {c.inicio, c.fin} ELSE {c.posicion}

\* the sorted critical nodes: the ends, the supports, the positions of the
\* point loads and couples, the ends of the distributed loads
obtener_nudos_criticos(aps, cgs, L) ==
  Ascendente({0, L} \cup {aps[j].posicion : j \in 1..Len(aps)}
             \cup UNION {PosicionesDe(cgs[i]) : i \in 1..Len(cgs)})

\* max(1, int(puntos_por_tramo * (right - left) / L_total))
n_internos(ppt, left, right, L) ==
  IF (ppt * (right - left)) \div L >= 1 THEN (ppt * (right - left)) \div L ELSE 1

RECURSIVE MCM(_, _)
MCM(S, m) ==
  IF S = {} THEN m
  ELSE MCM(S \ {CHOOSE n \in S : TRUE},
           (m \div GCD(m, CHOOSE n \in S : TRUE)) * (CHOOSE n \in S : TRUE))

\* the scale Q of the grid: 2 * min_steps / gcd(L, 2 * min_steps) times the
\* least common multiple of the numbers of steps of the np.linspace calls
EscalaMalla(nudos, ppt, L) ==
  MCM({n_internos(ppt, nudos[i], nudos[i + 1], L) - 1 : i \in 1..(Len(nudos) - 1)} \ {0},
      (2 * min_steps) \div GCD(L, 2 * min_steps))

\* Q * np.linspace(hL, hR, n) for hL = left + eps, hR = right - eps and
\* e = Q * eps; one point, hL, when n = 1
internos(left, right, n, Q, e) ==
  IF n = 1 THEN {Q * left + e}
  ELSE {Q * left + e + (j * (Q * (right - left) - 2 * e)) \div (n - 1) : j \in 0..(n - 1)}

\* the three points on each side of a support that lie on the beam; h = e / 2
refinado(xa, Q, h, L) ==
  {Q * xa + d * h : d \in {-3, -2, -1, 1, 2, 3}} \cap (0..(Q * L))

\* Q * x_grid: the nodes, the inner points of the stretches where the halos
\* fit, the refinement at the supports; sorted, without duplicates
malla(aps, nudos, ppt, L, Q) ==
  Ascendente({Q * nudos[i] : i \in 1..Len(nudos)}
    \cup UNION {IF 2 * ((Q * L) \div min_steps) < Q * (nudos[i + 1] - nudos[i])
                  THEN internos(nudos[i], nudos[i + 1],
                                n_internos(ppt, nudos[i], nudos[i + 1], L), Q,
                                (Q * L) \div min_steps)
                  ELSE {} : i \in 1..(Len(nudos) - 1)}
    \cup UNION {refinado(aps[j].posicion, Q, (Q * L) \div (2 * min_steps), L) :
                  j \in 1..Len(aps)})

\* the mask closed at both ends: [inicio, fin]
en_mascara_cerrada(c, X, Q, L) ==
  /\ X >= Q * c.inicio
  /\ X <= Q * c.fin

\* the mask of a distributed load: [inicio, fin), closed when fin = L
en_mascara(c, X, Q, L) ==
  /\ X >= Q * c.inicio
  /\ IF c.fin = L THEN X <= Q * c.fin ELSE X < Q * c.fin

\* the intensity of c at X / Q over Q * KProd, ko = KProd without the
\* divisor of c
w_local(c, X, Q, L, kp, ko) ==
  CASE c.tipo = "CargaUniforme" /\ en_mascara(c, X, Q, L) -> BMulE(kp, Q * c.intensidad)
    [] c.tipo = "CargaTrapezoidal" /\ en_mascara(c, X, Q, L) /\ c.fin > c.inicio ->
         BAdd(BMulE(ko, c.intensidad_inicio * (Q * c.fin - X)),
              BMulE(ko, c.intensidad_fin * (X - Q * c.inicio)))
    [] OTHER -> BZero

\* w_total over Q * KProd
construir_w_total_continua(cgs, X, Q, L) ==
  Arr(BMulE(KProd(cgs), Q),
      Tup([k \in 1..Len(X) |->
             BSum(Tup([i \in 1..Len(cgs) |->
                         w_local(cgs[i], X[k], Q, L, KProd(cgs), KOtros(cgs, i))],
                      Len(cgs)))], Len(X)))

\* twice H(x, half=False)
H_sin_mitad(x) == IF x >= 0 THEN 2 ELSE 0

\* twice H(x, half=True)
H(x) == IF x > 0 THEN 2 ELSE IF x = 0 THEN 1 ELSE 0

\* twice the sum of R * H(x - a) over the supports, over r.den
saltos_reacciones(aps, r, X, Q) ==
  BSum(Tup([j \in 1..Len(aps) |->
              BMulI(r.val[aps[j].nombre], H(X - Q * aps[j].posicion))], Len(aps)))

\* twice the sum of P * H(x - b) over the point forces
saltos_puntuales(cgs, X, Q) ==
  BSum(Tup([i \in 1..Len(cgs) |->
              IF cgs[i].tipo = "CargaPuntual"
                THEN BInt(cgs[i].magnitud * H(X - Q * cgs[i].posicion))
                ELSE BZero], Len(cgs)))

\* cumulative_trapezoid(a, x_grid, initial=0) over 2 * Q * a.d
RECURSIVE CumTrapzMalla(_, _, _)
CumTrapzMalla(v, xs, acc) ==
  IF Len(acc) >= Len(v) THEN acc
  ELSE CumTrapzMalla(v, xs,
         Append(acc, BAdd(acc[Len(acc)],
                          BMulE(BAdd(v[Len(acc)], v[Len(acc) + 1]),
                                xs[Len(acc) + 1] - xs[Len(acc)]))))

IntegralMalla(a, X, Q) == Arr(BMulE(a.d, 2 * Q), CumTrapzMalla(a.v, X, << BZero >>))

\* V over iw.d * r.den: the reactions and the point forces behind H(0) = 1/2,
\* minus iw, the cumulative integral of w_total; hd = iw.d / 2
cortante(aps, cgs, r, X, Q, iw, hd) ==
  Arr(BMul(iw.d, r.den),
      Tup([k \in 1..Len(X) |->
             BSub(BMul(hd, BSub(saltos_reacciones(aps, r, X[k], Q),
                                BMul(r.den, saltos_puntuales(cgs, X[k], Q)))),
                  BMul(r.den, iw.v[k]))], Len(X)))

\* the jump of every couple applied, wherever it sits
salto_siempre(c, aps) == c.tipo = "CargaMomento"

\* the jump of a couple is applied unless it sits on a support and is not
\* en_vano
salto_aplicado(c, aps) ==
  c.tipo = "CargaMomento" /\ (~esta_en_apoyo(c.posicion, aps) \/ c.en_vano)

\* twice the sum of the jumps at X: M0 / 2 on the grid point of the couple,
\* M0 after it
saltos_M0(aps, cgs, X, Q) ==
  BSum(Tup([i \in 1..Len(cgs) |->
              IF salto_aplicado(cgs[i], aps)
                THEN BMul(BInt(cgs[i].magnitud), BInt(H(X - Q * cgs[i].posicion)))
                ELSE BZero], Len(cgs)))

\* M before the correction by spans: Mi = cumulative integral of V, whose
\* denominator is 2 * Q * V.d, plus the jumps; jd = Q * V.d
momento(aps, cgs, X, Q, Mi, jd) ==
  Arr(Mi.d, Tup([k \in 1..Len(X) |->
                   BAdd(Mi.v[k], BMul(jd, saltos_M0(aps, cgs, X[k], Q)))], Len(X)))

\* np.argmin(np.abs(x_grid - t)): the first nearest grid point
argmin(X, t) ==
  CHOOSE k \in 1..Len(X) :
    \A j \in 1..Len(X) :
      \/ AbsI(X[k] - t) < AbsI(X[j] - t)
      \/ AbsI(X[k] - t) = AbsI(X[j] - t) /\ k <= j

\* the affine function subtracted on the whole grid, whatever the mask
resta_afin_sin_mascara(a, X, xa, xb, ia, ib, desde, hasta) ==
  Arr(BMulE(a.d, xb - xa),
      Tup([k \in 1..Len(X) |->
             BSub(BMulE(BSub(a.v[k], a.v[ia]), xb - xa),
                  BMulE(BSub(a.v[ib], a.v[ia]), X[k] - xa))], Len(X)))

\* a - [a[ia] + (a[ib] - a[ia]) / (xb - xa) * (x - xa)] on the points of the
\* mask, over a.d * (xb - xa)
resta_afin(a, X, xa, xb, ia, ib, desde, hasta) ==
  Arr(BMulE(a.d, xb - xa),
      Tup([k \in 1..Len(X) |->
             IF desde <= X[k] /\ X[k] <= hasta
               THEN BSub(BMulE(BSub(a.v[k], a.v[ia]), xb - xa),
                         BMulE(BSub(a.v[ib], a.v[ia]), X[k] - xa))
               ELSE BMulE(a.v[k], xb - xa)], Len(X)))

\* the correction of M on the span [pos[j], pos[j + 1]] and on the next ones
RECURSIVE corregir_vanos(_, _, _, _, _)
corregir_vanos(M, X, Q, pos, j) ==
  IF j >= Len(pos) THEN M
  ELSE corregir_vanos(resta_afin(M, X, Q * pos[j], Q * pos[j + 1],
                                 argmin(X, Q * pos[j]), argmin(X, Q * pos[j + 1]),
                                 Q * pos[j], Q * pos[j + 1]),
                      X, Q, pos, j + 1)

posiciones_ordenadas(aps) == Ascendente({aps[j].posicion : j \in 1..Len(aps)})

\* M corrected on the first span only
corregir_M_primer_vano(aps, M, X, Q) ==
  IF Len(aps) >= 3
    THEN corregir_vanos(M, X, Q, SubSeq(posiciones_ordenadas(aps), 1, 2), 1)
    ELSE M

\* M of the result: corrected span by span with three supports or more
corregir_M(aps, M, X, Q) ==
  IF Len(aps) >= 3 THEN corregir_vanos(M, X, Q, posiciones_ordenadas(aps), 1) ELSE M

\* the correction of y through the first two supports of the list
corregir_y_dos_primeros(aps, y, X, Q, pos) ==
  IF Len(aps) >= 2 /\ pos[2] > pos[1]
    THEN resta_afin(y, X, Q * pos[1], Q * pos[2],
                    argmin(X, Q * pos[1]), argmin(X, Q * pos[2]), X[1], X[Len(X)])
  ELSE y

\* y of the result: with two supports or more, minus the line through the
\* grid points of the leftmost and the rightmost support, on the whole grid
corregir_y(aps, y, X, Q, pos) ==
  IF Len(aps) >= 2 /\ pos[Len(pos)] > pos[1]
    THEN resta_afin(y, X, Q * pos[1], Q * pos[Len(pos)],
                    argmin(X, Q * pos[1]), argmin(X, Q * pos[Len(pos)]),
                    X[1], X[Len(X)])
  ELSE y

subtramos_theta(aps, X, Q, V, M, theta) ==
  Resultados(X, Q, V, M, theta,
             corregir_y(aps, IntegralMalla(theta, X, Q), X, Q, posiciones_ordenadas(aps)))

subtramos_M(aps, X, Q, V, M) == subtramos_theta(aps, X, Q, V, M, IntegralMalla(M, X, Q))

subtramos_V(aps, cgs, X, Q, V) ==
  subtramos_M(aps, X, Q, V,
              corregir_M(aps, momento(aps, cgs, X, Q, IntegralMalla(V, X, Q),
                                      BMulE(V.d, Q)), X, Q))

subtramos_w(aps, cgs, r, X, Q, w) ==
  subtramos_V(aps, cgs, X, Q,
              cortante(aps, cgs, r, X, Q, IntegralMalla(w, X, Q), BMulE(w.d, Q)))

subtramos_malla(aps, cgs, r, L, X, Q) ==
  subtramos_w(aps, cgs, r, X, Q, construir_w_total_continua(cgs, X, Q, L))

subtramos_nudos(aps, cgs, r, L, ppt, nudos) ==
  subtramos_malla(aps, cgs, r, L, malla(aps, nudos, ppt, L, EscalaMalla(nudos, ppt, L)),
                  EscalaMalla(nudos, ppt, L))

\* the dictionary returned for the reactions r
subtramos(aps, cgs, r, L, ppt) ==
  subtramos_nudos(aps, cgs, r, L, ppt, obtener_nudos_criticos(aps, cgs, L))

(***************************************************************************)
(* obtener_maximos: for a column, the position and the value at the first  *)
(* index of the largest absolute value.                                    *)
(***************************************************************************)
\* the last index of the largest absolute value, instead of the first
RECURSIVE idxmax_abs_ultimo(_, _, _)
idxmax_abs_ultimo(v, k, mejor) ==
  IF k > Len(v) \/ mejor = 0 THEN mejor
  ELSE idxmax_abs_ultimo(v, k + 1, IF BLe(BAbs(v[mejor]), BAbs(v[k])) THEN k ELSE mejor)

RECURSIVE idxmax_abs(_, _, _)
idxmax_abs(v, k, mejor) ==
  IF k > Len(v) \/ mejor = 0 THEN mejor
  ELSE idxmax_abs(v, k + 1, IF BLt(BAbs(v[mejor]), BAbs(v[k])) THEN k ELSE mejor)

maximo(x, q, a, idx) == [x |-> x[idx], q |-> q, valor |-> En(a, idx)]

obtener_maximos(res) ==
  [cortante |-> maximo(res.x, res.q, res.V, idxmax_abs(res.V.v, 2, 1)),
   momento |-> maximo(res.x, res.q, res.M, idxmax_abs(res.M.v, 2, 1)),
   pendiente |-> maximo(res.x, res.q, res.theta, idxmax_abs(res.theta.v, 2, 1)),
   deflexion |-> maximo(res.x, res.q, res.deflexion, idxmax_abs(res.deflexion.v, 2, 1))]
(***************************************************************************)
(* State of a Viga.  escala is the number of length units in a metre and   *)
(* redondeo the way the floats break an exact tie between two samples      *)
(* (argmin_x); neither changes during a run.  E is in 10^8 Pa and I in     *)
(* 10^-8 m^4, so E * I is in N m^2.  ret is the outcome of the last call:  *)
(* the operation, the exception raised ("" if none) and the value returned.*)
(***************************************************************************)
VARIABLES longitud, escala, redondeo, E, I, apoyos, cargas,
          _reacciones, _expresiones, _lambdas, ret

vars == <<longitud, escala, redondeo, E, I, apoyos, cargas,
          _reacciones, _expresiones, _lambdas, ret>>

geometria == <<longitud, escala, redondeo, E, I>>

Ret(op, exc, val) == [op |-> op, exc |-> exc, val |-> val]

\* Viga.__post_init__ applied to the supports given to the constructor
apoyos_iniciales(lista, L, esc) ==
  IF lista = <<>> THEN << Apoyo(0, "A", esc), Apoyo(L, "B", esc) >> ELSE Ordenar(lista)

post_init_ok(lista, L, esc) ==
  /\ \A i \in 1..Len(lista) : lista[i].posicion <= L
  /\ \A i, j \in 1..Len(lista) :
       i < j => ~MuyCercanos(lista[i].posicion, lista[j].posicion, esc)

(***************************************************************************)
(* Bounds and inputs of the state machine.                                 *)
(***************************************************************************)
MaxApoyos == 3
MaxCargas == 1

\* a 6 m beam in units of 1/999 m, so that the 1000 samples of the
\* flexibility method fall on whole units
Escala == num_puntos_flex - 1
LongitudViga == 6 * Escala

ApoyosNuevos ==
  { Apoyo(3000, "C", Escala), Apoyo(2997, "", Escala), Apoyo(6000, "Z", Escala) }

CargasNuevas ==
  { CargaPuntual(2000, 2000), CargaMomento(999000, 0, FALSE),
    CargaTrapezoidal(0, 2, 2000, 5994), CargaPuntual(500, 6000) }

\* num_puntos of the evaluations of the state machine
PuntosNuevos == {4}

ListasIniciales ==
  { <<>>, << Apoyo(5994, "A", Escala), Apoyo(0, "A", Escala) >> }

Init ==
  /\ longitud = LongitudViga
  /\ escala = Escala
  /\ redondeo \in {0, 1}
  /\ E = 2100
  /\ I = 800
  /\ \E lista \in ListasIniciales :
       /\ post_init_ok(lista, LongitudViga, Escala)
       /\ apoyos = apoyos_iniciales(lista, LongitudViga, Escala)
  /\ cargas = <<>>
  /\ _reacciones = None
  /\ _expresiones = None
  /\ _lambdas = None
  /\ ret = Ret("Viga", "", None)

_validar_apoyo_duplicado(nueva_posicion) ==
  \E i \in 1..Len(apoyos) : MuyCercanos(apoyos[i].posicion, nueva_posicion, escala)

\* agregar_apoyo with the memos emptied before the validation
agregar_apoyo_invalida_antes(apoyo) ==
  /\ IF apoyo.posicion > longitud \/ _validar_apoyo_duplicado(apoyo.posicion)
       THEN /\ ret' = Ret("agregar_apoyo", "ValueError", None)
            /\ _reacciones' = None
            /\ _expresiones' = None
            /\ _lambdas' = None
            /\ UNCHANGED apoyos
       ELSE /\ apoyos' = Insertar(apoyos, apoyo)
            /\ _reacciones' = None
            /\ _expresiones' = None
            /\ _lambdas' = None
            /\ ret' = Ret("agregar_apoyo", "", None)
  /\ UNCHANGED <<geometria, cargas>>

agregar_apoyo(apoyo) ==
  /\ IF apoyo.posicion > longitud \/ _validar_apoyo_duplicado(apoyo.posicion)
       THEN /\ ret' = Ret("agregar_apoyo", "ValueError", None)
            /\ UNCHANGED <<apoyos, _reacciones, _expresiones, _lambdas>>
       ELSE /\ apoyos' = Insertar(apoyos, apoyo)
            /\ _reacciones' = None
            /\ _expresiones' = None
            /\ _lambdas' = None
            /\ ret' = Ret("agregar_apoyo", "", None)
  /\ UNCHANGED <<geometria, cargas>>

limpiar_apoyos ==
  /\ apoyos' = <<>>
  /\ _reacciones' = None
  /\ _expresiones' = None
  /\ _lambdas' = None
  /\ ret' = Ret("limpiar_apoyos", "", None)
  /\ UNCHANGED <<geometria, cargas>>

\* agregar_carga without the invalidation of the memoized reactions
agregar_carga_sin_invalidar(carga) ==
  /\ IF fuera_de_la_viga(carga, longitud)
       THEN /\ ret' = Ret("agregar_carga", "ValueError", None)
            /\ UNCHANGED <<cargas, _reacciones, _expresiones, _lambdas>>
       ELSE /\ cargas' = Append(cargas, carga)
            /\ _expresiones' = None
            /\ _lambdas' = None
            /\ ret' = Ret("agregar_carga", "", None)
            /\ UNCHANGED _reacciones
  /\ UNCHANGED <<geometria, apoyos>>

agregar_carga(carga) ==
  /\ IF fuera_de_la_viga(carga, longitud)
       THEN /\ ret' = Ret("agregar_carga", "ValueError", None)
            /\ UNCHANGED <<cargas, _reacciones, _expresiones, _lambdas>>
       ELSE /\ cargas' = Append(cargas, carga)
            /\ _reacciones' = None
            /\ _expresiones' = None
            /\ _lambdas' = None
            /\ ret' = Ret("agregar_carga", "", None)
  /\ UNCHANGED <<geometria, apoyos>>

limpiar_cargas ==
  /\ cargas' = <<>>
  /\ _reacciones' = None
  /\ _expresiones' = None
  /\ _lambdas' = None
  /\ ret' = Ret("limpiar_cargas", "", None)
  /\ UNCHANGED <<geometria, apoyos>>

EsExcepcion(r) == r.tipo \in {"ValueError", "RuntimeError"}

\* the value calcular_reacciones returns or raises in the current state, and
\* the memo it leaves
reacciones_actuales ==
  IF _reacciones # None THEN _reacciones
  ELSE reacciones_de(apoyos, cargas, longitud, redondeo)

calcular_reacciones ==
  \E r \in {reacciones_actuales} :
    /\ IF EsExcepcion(r)
         THEN /\ ret' = Ret("calcular_reacciones", r.tipo, None)
              /\ UNCHANGED _reacciones
         ELSE /\ _reacciones' = r
              /\ ret' = Ret("calcular_reacciones", "", r)
    /\ UNCHANGED <<geometria, apoyos, cargas, _expresiones, _lambdas>>

Expresiones(aps, cgs) == [tipo |-> "dict", apoyos |-> aps, cargas |-> cgs]

\* Viga.evaluar(num_puntos): the symbolic path with two supports, the
\* numeric fallback otherwise
evaluar(num_puntos) ==
  \E r \in {reacciones_actuales} :
    /\ IF EsExcepcion(r)
         THEN /\ ret' = Ret("evaluar", r.tipo, None)
              /\ UNCHANGED <<_reacciones, _expresiones, _lambdas>>
       ELSE IF Len(apoyos) = 2
         THEN /\ _reacciones' = r
              /\ _expresiones' = IF _expresiones = None
                                   THEN Expresiones(apoyos, cargas) ELSE _expresiones
              /\ _lambdas' = IF _lambdas = None
                               THEN Expresiones(apoyos, cargas) ELSE _lambdas
              /\ ret' = Ret("evaluar", "",
                            resultados_simbolicos(apoyos, cargas, longitud, num_puntos))
       ELSE /\ _reacciones' = r
            \* with one support the symbolic system is solved only when
            \* M vanishes at the support; the samples come from the fallback
            /\ \/ UNCHANGED <<_expresiones, _lambdas>>
               \/ /\ Len(apoyos) = 1
                  /\ _expresiones = None
                  /\ _expresiones' = Expresiones(apoyos, cargas)
                  /\ _lambdas' = Expresiones(apoyos, cargas)
            /\ ret' = Ret("evaluar", "",
                          _evaluar_numerico(apoyos, cargas, r, longitud, num_puntos,
                                            redondeo))
    /\ UNCHANGED <<geometria, apoyos, cargas>>

Next ==
  \/ \E a \in ApoyosNuevos : Len(apoyos) < MaxApoyos /\ agregar_apoyo(a)
  \/ limpiar_apoyos
  \/ \E c \in CargasNuevas : Len(cargas) < MaxCargas /\ agregar_carga(c)
  \/ limpiar_cargas
  \/ calcular_reacciones
  \/ \E np \in PuntosNuevos : evaluar(np)

Spec == Init /\ [][Next]_vars

(***************************************************************************)
(* Memoization.                                                            *)
(***************************************************************************)
Mutadores == {"agregar_apoyo", "limpiar_apoyos", "agregar_carga", "limpiar_cargas"}

\* C1: the memoized reactions are absent or equal to what calcular_reacciones
\* computes from the current supports and loads; a mutator that succeeded
\* leaves the three memos empty; and calcular_reacciones answers with the memo.
C1_MemoCoherente ==
  /\ _reacciones # None =>
       _reacciones = reacciones_de(apoyos, cargas, longitud, redondeo)
  /\ (ret.op \in Mutadores /\ ret.exc = "") =>
       (_reacciones = None /\ _expresiones = None /\ _lambdas = None)
  /\ (ret.op = "calcular_reacciones" /\ ret.exc = "") => ret.val = _reacciones

\* a hyperstatic loaded beam whose reactions are memoized
C1_Testigo ==
  /\ ret.op = "calcular_reacciones"
  /\ _reacciones # None
  /\ Len(apoyos) >= 3
  /\ cargas # <<>>

(***************************************************************************)
(* Equilibrium of the returned reactions.                                  *)
(***************************************************************************)
DevuelveReacciones == ret.op = "calcular_reacciones" /\ ret.exc = ""

\* sum of total_load() over the loads
suma_total == Frac(suma_cargas(cargas), BInt(6))

\* C2: the values of the mapping returned by calcular_reacciones sum to the
\* sum of total_load() over the loads within 1e-3, for one, two or more
\* supports.
C2_Equilibrio ==
  DevuelveReacciones =>
    QMenorQue(QSub(suma_reacciones(ret.val), suma_total), 3)

\* the equilibrium of C2 when the supports bear different names
C2_EquilibrioNombresDistintos ==
  (DevuelveReacciones /\ Cardinality(DOMAIN ret.val.val) = Len(apoyos)) =>
    QEq(suma_reacciones(ret.val), suma_total)

\* C3: with two supports the mapping holds R_R = sum of moment_about(left)/d
\* under the right support's name and R_L = sum of total_load() - R_R under
\* the left one's.
C3_DosApoyos ==
  (DevuelveReacciones /\ Len(apoyos) = 2) =>
    LET d   == apoyos[2].posicion - apoyos[1].posicion
        R_R == Frac(momentos(cargas, apoyos[1].posicion), BInt(6 * d))
        R_L == QSub(suma_total, R_R)
    IN  /\ QEq(Frac(ret.val.val[apoyos[2].nombre], ret.val.den), R_R)
        /\ QEq(Frac(ret.val.val[apoyos[1].nombre], ret.val.den), R_L)

\* the formula of C3 when the two supports bear different names
C3_DosApoyosNombresDistintos ==
  (DevuelveReacciones /\ Len(apoyos) = 2 /\ apoyos[1].nombre # apoyos[2].nombre) =>
    LET d   == apoyos[2].posicion - apoyos[1].posicion
        R_R == Frac(momentos(cargas, apoyos[1].posicion), BInt(6 * d))
        R_L == QSub(suma_total, R_R)
    IN  /\ QEq(Frac(ret.val.val[apoyos[2].nombre], ret.val.den), R_R)
        /\ QEq(Frac(ret.val.val[apoyos[1].nombre], ret.val.den), R_L)
        /\ \A i \in 1..Len(cargas) :
             (Len(cargas) = 1 /\ cargas[i].tipo = "CargaPuntual") =>
               QEq(Frac(ret.val.val[apoyos[2].nombre], ret.val.den),
                   Frac(BInt(cargas[i].magnitud * (cargas[i].posicion - apoyos[1].posicion)),
                        BInt(d)))

(***************************************************************************)
(* The diagrams of evaluar_por_subtramos: a 6 m beam in units of 1/800 m,  *)
(* so that the halo L / min_steps and its half are whole units.  The       *)
(* supports are those of the constructor; loads are added and the diagrams *)
(* evaluated.                                                              *)
(***************************************************************************)
MaxCargasSubtramos == 2

EscalaSubtramos == min_steps \div 3
LongitudSubtramos == 6 * EscalaSubtramos

ListasSubtramos ==
  { <<>>,
    << Apoyo(4000, "B", EscalaSubtramos), Apoyo(800, "A", EscalaSubtramos) >>,
    << Apoyo(0, "A", EscalaSubtramos), Apoyo(2400, "B", EscalaSubtramos),
       Apoyo(4800, "C", EscalaSubtramos) >>,
    << Apoyo(0, "A", EscalaSubtramos) >> }

\* 1000 N at 3 m, a trapezoid from 800 N/m at 1 m to 4000 N/m at 2.8 m, a
\* couple of 5000 N m at x = 0 that is not en_vano
CargasSubtramos ==
  { CargaPuntual(1000, 2400), CargaTrapezoidal(1, 5, 800, 2240),
    CargaMomento(4000000, 0, FALSE) }

\* puntos_por_tramo of the evaluations: the default
PuntosPorTramo == {50}

InitSubtramos ==
  /\ longitud = LongitudSubtramos
  /\ escala = EscalaSubtramos
  /\ redondeo = 0
  /\ E = 2100
  /\ I = 800
  /\ \E lista \in ListasSubtramos :
       /\ post_init_ok(lista, LongitudSubtramos, EscalaSubtramos)
       /\ apoyos = apoyos_iniciales(lista, LongitudSubtramos, EscalaSubtramos)
  /\ cargas = <<>>
  /\ _reacciones = None
  /\ _expresiones = None
  /\ _lambdas = None
  /\ ret = Ret("Viga", "", None)

\* evaluar_por_subtramos(viga, puntos_por_tramo): the reactions come from
\* viga.calcular_reacciones(), which memoizes them or raises
evaluar_por_subtramos(puntos_por_tramo) ==
  \E r \in {reacciones_actuales} :
    /\ IF EsExcepcion(r)
         THEN /\ ret' = Ret("evaluar_por_subtramos", r.tipo, None)
              /\ UNCHANGED _reacciones
         ELSE /\ _reacciones' = r
              /\ ret' = Ret("evaluar_por_subtramos", "",
                            subtramos(apoyos, cargas, r, longitud, puntos_por_tramo))
    /\ UNCHANGED <<geometria, apoyos, cargas, _expresiones, _lambdas>>

NextSubtramos ==
  \/ \E c \in CargasSubtramos : Len(cargas) < MaxCargasSubtramos /\ agregar_carga(c)
  \/ \E ppt \in PuntosPorTramo : evaluar_por_subtramos(ppt)

SpecSubtramos == InitSubtramos /\ [][NextSubtramos]_vars

(***************************************************************************)
(* Viga.evaluar on continuous beams: a 6 m beam in millimetres with three  *)
(* supports given to the constructor, evaluated on 41 samples, so that     *)
(* the supports at 2 m and 3 m fall on samples.                            *)
(***************************************************************************)
MaxCargasContinua == 2

EscalaContinua == 10 * 10 * 10
LongitudContinua == 6 * EscalaContinua

ListasContinua ==
  { << Apoyo(0, "A", EscalaContinua), Apoyo(3000, "B", EscalaContinua),
       Apoyo(6000, "C", EscalaContinua) >>,
    << Apoyo(0, "A", EscalaContinua), Apoyo(2000, "B", EscalaContinua),
       Apoyo(6000, "C", EscalaContinua) >> }

\* 3000 N/m on the whole beam, 1000 N at 1.5 m, 5000 N at 4 m, a couple of
\* 2000 N m at 4.5 m
CargasContinua ==
  { CargaUniforme(3, 0, 6000), CargaPuntual(1000, 1500), CargaPuntual(5000, 4000),
    CargaMomento(2000000, 4500, TRUE) }

PuntosContinua == {41}

InitContinua ==
  /\ longitud = LongitudContinua
  /\ escala = EscalaContinua
  /\ redondeo \in {0, 1}
  /\ E = 2100
  /\ I = 800
  /\ \E lista \in ListasContinua :
       /\ post_init_ok(lista, LongitudContinua, EscalaContinua)
       /\ apoyos = apoyos_iniciales(lista, LongitudContinua, EscalaContinua)
  /\ cargas = <<>>
  /\ _reacciones = None
  /\ _expresiones = None
  /\ _lambdas = None
  /\ ret = Ret("Viga", "", None)

NextContinua ==
  \/ \E c \in CargasContinua : Len(cargas) < MaxCargasContinua /\ agregar_carga(c)
  \/ \E np \in PuntosContinua : evaluar(np)

SpecContinua == InitContinua /\ [][NextContinua]_vars

(***************************************************************************)
(* The diagrams returned by evaluar_por_subtramos.  V is in N, M in N u,   *)
(* EI theta in N u^2 and EI y in N u^3, for the unit u = 1 / escala metre. *)
(***************************************************************************)
EvaluadaPorSubtramos == ret.op = "evaluar_por_subtramos" /\ ret.exc = ""

\* p * m for an integer m
QPor(p, m) == Frac(BMulE(p.n, m), p.d)

\* the reaction at the j-th support in the memoized mapping
reaccion(j) == Frac(_reacciones.val[apoyos[j].nombre], _reacciones.den)

\* supports at 0 and L and a single downward point force at L / 2
CargaCentrada ==
  /\ Len(apoyos) = 2
  /\ apoyos[1].posicion = 0
  /\ apoyos[2].posicion = longitud
  /\ Len(cargas) = 1
  /\ cargas[1].tipo = "CargaPuntual"
  /\ cargas[1].magnitud > 0
  /\ 2 * cargas[1].posicion = longitud

\* C4: with supports at 0 and L and one point force P at L / 2 both
\* reactions are P / 2, and the maximum of |M| that obtener_maximos finds in
\* the evaluated diagram is P * L / 4 within 1e-5 N m, at x = L / 2.
C4_CargaCentrada ==
  (EvaluadaPorSubtramos /\ CargaCentrada) =>
    /\ \A j \in 1..2 : QEq(reaccion(j), Frac(BInt(cargas[1].magnitud), BInt(2)))
    /\ 2 * obtener_maximos(ret.val).momento.x = obtener_maximos(ret.val).momento.q * longitud
    /\ QLe(QAbs(QSub(QAbs(obtener_maximos(ret.val).momento.valor),
                     Frac(BInt(cargas[1].magnitud * longitud), BInt(4)))),
           Frac(BInt(escala), BPow10(5)))

\* what the evaluation gives in the case of C4: the reactions and the place
\* of the maximum are P / 2 and L / 2, the maximum is
\* P * L / 4 - 5 * P * eps / 16 for the halo eps = L / min_steps
C4_ValorEvaluado ==
  (EvaluadaPorSubtramos /\ CargaCentrada) =>
    /\ \A j \in 1..2 : QEq(reaccion(j), Frac(BInt(cargas[1].magnitud), BInt(2)))
    /\ 2 * obtener_maximos(ret.val).momento.x = obtener_maximos(ret.val).momento.q * longitud
    /\ QEq(QAbs(obtener_maximos(ret.val).momento.valor),
           QSub(Frac(BInt(cargas[1].magnitud * longitud), BInt(4)),
                Frac(BInt(5 * cargas[1].magnitud * longitud), BInt(16 * min_steps))))

\* abs(a[k]) <= 10^-5 N m for an array of moments in N u
MomentoDespreciable(a, k) ==
  BLe(BMul(BAbs(a.v[k]), BPow10(5)), BMulE(a.d, escala))

\* C5: with two supports, whatever the loads, M of evaluar_por_subtramos is
\* 0 within 1e-5 N m at the grid points of both supports.
C5_MomentoNuloEnApoyos ==
  (EvaluadaPorSubtramos /\ Len(apoyos) = 2) =>
    \A j \in 1..2 :
      MomentoDespreciable(ret.val.M,
                          argmin(ret.val.x, ret.val.q * apoyos[j].posicion))

\* the leftmost and the rightmost support, by position
PosicionIzquierda ==
  CHOOSE p \in {apoyos[j].posicion : j \in 1..Len(apoyos)} :
    \A j \in 1..Len(apoyos) : p <= apoyos[j].posicion
PosicionDerecha ==
  CHOOSE p \in {apoyos[j].posicion : j \in 1..Len(apoyos)} :
    \A j \in 1..Len(apoyos) : p >= apoyos[j].posicion

\* what was subtracted from y0, the cumulative integral of theta, to give y,
\* at the k-th grid point beyond what was subtracted at the first one; over
\* y0.d * y.d
Restado(y0, y, k) ==
  BSub(BMul(BSub(y0.v[k], y0.v[1]), y.d), BMul(BSub(y.v[k], y.v[1]), y0.d))

\* the amounts subtracted lie on one line; n2 is the one at the second point
EnUnaRecta(y0, y, X, n2) ==
  \A k \in 2..Len(X) :
    BMulE(Restado(y0, y, k), X[2] - X[1]) = BMulE(n2, X[k] - X[1])

RestaAfin(y0, y, X) == EnUnaRecta(y0, y, X, Restado(y0, y, 2))

\* C6: with two supports or more, deflexion of evaluar_por_subtramos is 0 at
\* the grid points of the leftmost and of the rightmost support, and it is
\* the cumulative integral of theta minus one affine function of x on the
\* whole grid, cantilevers included.
C6_DeflexionNulaEnExtremos ==
  (EvaluadaPorSubtramos /\ Len(apoyos) >= 2) =>
    /\ ret.val.deflexion.v[argmin(ret.val.x, ret.val.q * PosicionIzquierda)] = BZero
    /\ ret.val.deflexion.v[argmin(ret.val.x, ret.val.q * PosicionDerecha)] = BZero
    /\ RestaAfin(IntegralMalla(ret.val.theta, ret.val.x, ret.val.q), ret.val.deflexion,
                 ret.val.x)

\* a loaded beam with cantilevers on both sides whose free end moved
C6_Testigo ==
  /\ EvaluadaPorSubtramos
  /\ Len(apoyos) >= 2
  /\ PosicionIzquierda > 0
  /\ PosicionDerecha < longitud
  /\ cargas # <<>>
  /\ ret.val.deflexion.v[1] # BZero

(***************************************************************************)
(* Viga.evaluar with three supports or more.                               *)
(***************************************************************************)
EvaluadaContinua == ret.op = "evaluar" /\ ret.exc = "" /\ Len(apoyos) >= 3

\* abs(y[k]) < 10^-4 m for an array of EI y in N u^3
DeflexionDespreciable(y, k) ==
  BLt(BMul(BAbs(y.v[k]), BPow10(4)),
      BMul(BMul(y.d, BInt(E * I)), BPow(BInt(escala), 3)))

\* C7: with three supports or more, the deflection returned by Viga.evaluar
\* is below 1e-4 m in absolute value at the sample nearest to every support.
C7_DeflexionNulaEnTodosLosApoyos ==
  EvaluadaContinua =>
    \A j \in 1..Len(apoyos) :
      DeflexionDespreciable(ret.val.deflexion,
                            idx_cercano(apoyos, j, longitud, ret.val.q, redondeo))

\* what the correction of _evaluar_numerico gives: 0 at the samples of the
\* first two supports of the list
C7_DosPrimerosApoyos ==
  EvaluadaContinua =>
    \A j \in 1..2 :
      ret.val.deflexion.v[idx_cercano(apoyos, j, longitud, ret.val.q, redondeo)] = BZero

(***************************************************************************)
(* Superposition of two loads.                                             *)
(***************************************************************************)
\* the evaluation of the beam under its i-th load alone
SoloCon(i) ==
  subtramos(apoyos, <<cargas[i]>>,
            reacciones_de(apoyos, <<cargas[i]>>, longitud, redondeo), longitud,
            CHOOSE ppt \in PuntosPorTramo : TRUE)

\* the grid points of res that fall on whole units, and the one at unit p
EnUnidad(res) == {k \in 1..Len(res.x) : res.x[k] % res.q = 0}
PuntoEn(res, p) == CHOOSE k \in EnUnidad(res) : res.x[k] = res.q * p

\* positions, in whole units, common to the three grids
PosicionesComunes(rab, ra, rb) ==
  {p \in 0..longitud :
     /\ \E k \in EnUnidad(rab) : rab.x[k] = rab.q * p
     /\ \E k \in EnUnidad(ra) : ra.x[k] = ra.q * p
     /\ \E k \in EnUnidad(rb) : rb.x[k] = rb.q * p}

\* the largest absolute value of an array
MaximoAbs(a) == Frac(BAbs(a.v[idxmax_abs(a.v, 2, 1)]), a.d)

\* at every common position the array of the two loads is the sum of the
\* arrays of each within a hundredth of its largest absolute value
SumaEnComunes(ab, a, b, rab, ra, rb) ==
  \A p \in PosicionesComunes(rab, ra, rb) :
    QLe(QPor(QAbs(QSub(En(ab, PuntoEn(rab, p)),
                       QAdd(En(a, PuntoEn(ra, p)), En(b, PuntoEn(rb, p))))), 100),
        MaximoAbs(ab))

SuperposicionDe(rab, ra, rb, sa, sb) ==
  /\ \A j \in 1..Len(apoyos) :
       QMenorQue(QSub(reaccion(j),
                      QAdd(Frac(sa.val[apoyos[j].nombre], sa.den),
                           Frac(sb.val[apoyos[j].nombre], sb.den))), 3)
  /\ SumaEnComunes(rab.V, ra.V, rb.V, rab, ra, rb)
  /\ SumaEnComunes(rab.M, ra.M, rb.M, rab, ra, rb)
  /\ SumaEnComunes(rab.theta, ra.theta, rb.theta, rab, ra, rb)
  /\ SumaEnComunes(rab.deflexion, ra.deflexion, rb.deflexion, rab, ra, rb)

DosCargasEvaluadas ==
  /\ EvaluadaPorSubtramos
  /\ Len(cargas) = 2
  /\ \A i \in 1..2 : ~EsExcepcion(reacciones_de(apoyos, <<cargas[i]>>, longitud, redondeo))

\* C8: with two loads, the reactions and V, M, theta and y of
\* evaluar_por_subtramos are the sums of those of each load alone, support
\* by support and at the common positions, within the integration tolerance
\* (1e-3 N for the reactions, a hundredth of the largest value for the
\* diagrams).
C8_Superposicion ==
  DosCargasEvaluadas =>
    SuperposicionDe(ret.val, SoloCon(1), SoloCon(2),
                    reacciones_de(apoyos, <<cargas[1]>>, longitud, redondeo),
                    reacciones_de(apoyos, <<cargas[2]>>, longitud, redondeo))

(***************************************************************************)
(* Derivative identities.                                                  *)
(***************************************************************************)
\* positions of the supports, the point forces and the couples
Discontinuidades ==
  {apoyos[j].posicion : j \in 1..Len(apoyos)}
    \cup {cargas[i].posicion : i \in {n \in 1..Len(cargas) : ~EsDistribuida(cargas[n])}}

\* the grid interval [x[i], x[i + 1]] holds none of them
SinDiscontinuidad(res, i) ==
  \A p \in Discontinuidades : res.q * p < res.x[i] \/ res.q * p > res.x[i + 1]

\* a[i + 1] - a[i] = s * (b[i] + b[i + 1]) / 2 * (x[i + 1] - x[i])
Trapecio(a, b, res, i, s) ==
  QEq(Frac(BSub(a.v[i + 1], a.v[i]), a.d),
      Frac(BMulE(BAdd(b.v[i], b.v[i + 1]), s * (res.x[i + 1] - res.x[i])),
           BMulE(b.d, 2 * res.q)))

Derivadas(res, w) ==
  \A i \in 1..(Len(res.x) - 1) :
    SinDiscontinuidad(res, i) =>
      /\ Trapecio(res.M, res.V, res, i, 1)
      /\ Trapecio(res.V, w, res, i, -1)

\* C9: on every grid interval without support, point force or couple,
\* M[i+1] - M[i] = (V[i] + V[i+1]) / 2 * (x[i+1] - x[i]) and
\* V[i+1] - V[i] = -(w[i] + w[i+1]) / 2 * (x[i+1] - x[i]) for w = w_total,
\* with two supports and with three or more.
C9_Derivadas ==
  EvaluadaPorSubtramos =>
    Derivadas(ret.val, construir_w_total_continua(cargas, ret.val.x, ret.val.q, longitud))

\* the identities of C9 on the beams whose M is not corrected by spans
C9_DerivadasSinCorreccion ==
  (EvaluadaPorSubtramos /\ Len(apoyos) <= 2) =>
    Derivadas(ret.val, construir_w_total_continua(cargas, ret.val.x, ret.val.q, longitud))

(***************************************************************************)
(* Couples on a support.                                                   *)
(***************************************************************************)
\* a couple exactly on a support that is not en_vano
EnApoyoSinVano(c) ==
  /\ c.tipo = "CargaMomento"
  /\ ~c.en_vano
  /\ \E j \in 1..Len(apoyos) : apoyos[j].posicion = c.posicion

\* twice the jumps of the other couples at X / Q: half the couple on its
\* grid point, the couple after it
SaltosDeLosDemas(X, Q) ==
  BSum(Tup([i \in 1..Len(cargas) |->
              IF cargas[i].tipo = "CargaMomento" /\ ~EnApoyoSinVano(cargas[i])
                THEN BMul(BInt(cargas[i].magnitud),
                          BInt(IF X > Q * cargas[i].posicion THEN 2
                               ELSE IF X = Q * cargas[i].posicion THEN 1 ELSE 0))
                ELSE BZero], Len(cargas)))

\* the cumulative integral of V plus those jumps
IntegralConSaltos(res, Mi) ==
  Arr(Mi.d, Tup([k \in 1..Len(res.x) |->
                   BAdd(Mi.v[k], BMul(BMulE(res.V.d, res.q),
                                      SaltosDeLosDemas(res.x[k], res.q)))],
                Len(res.x)))

MismosValores(a, b) == \A k \in 1..Len(a.v) : QEq(En(a, k), En(b, k))

C10_TestigoSalto ==
  /\ EvaluadaPorSubtramos
  /\ Len(cargas) = 1
  /\ cargas[1].tipo = "CargaMomento"
  /\ ~EnApoyoSinVano(cargas[1])
  /\ ret.val.M.v[1] # BZero

(***************************************************************************)
(* Continuous beams on equally spaced supports: a 6 m beam in units of     *)
(* 1/999 m with supports at the thirds or at mid-span; every support but   *)
(* the one at mid-span falls on a sample of the flexibility method, the    *)
(* one at mid-span lies halfway between two samples.                       *)
(***************************************************************************)
MaxCargasEquidistantes == 2

ListasEquidistantes ==
  { << Apoyo(0, "A", Escala), Apoyo(LongitudViga \div 2, "B", Escala),
       Apoyo(LongitudViga, "C", Escala) >>,
    << Apoyo(0, "A", Escala), Apoyo(LongitudViga \div 3, "B", Escala),
       Apoyo(2 * (LongitudViga \div 3), "C", Escala), Apoyo(LongitudViga, "D", Escala) >> }

CargasEquidistantes ==
  { CargaUniforme(3, 0, LongitudViga), CargaPuntual(10000, LongitudViga \div 2),
    CargaPuntual(2000, 2000), CargaTrapezoidal(0, 2, 0, LongitudViga) }

InitEquidistantes ==
  /\ longitud = LongitudViga
  /\ escala = Escala
  /\ redondeo \in {0, 1}
  /\ E = 2100
  /\ I = 800
  /\ \E lista \in ListasEquidistantes :
       /\ post_init_ok(lista, LongitudViga, Escala)
       /\ apoyos = apoyos_iniciales(lista, LongitudViga, Escala)
  /\ cargas = <<>>
  /\ _reacciones = None
  /\ _expresiones = None
  /\ _lambdas = None
  /\ ret = Ret("Viga", "", None)

NextEquidistantes ==
  \/ \E c \in CargasEquidistantes :
       Len(cargas) < MaxCargasEquidistantes /\ agregar_carga(c)
  \/ limpiar_cargas
  \/ calcular_reacciones

SpecEquidistantes == InitEquidistantes /\ [][NextEquidistantes]_vars

\* the reaction returned for the j-th support
devuelta(j) == Frac(ret.val.val[apoyos[j].nombre], ret.val.den)

\* supports at 0, L / 2 and L
TresEquidistantes ==
  /\ Len(apoyos) = 3
  /\ apoyos[1].posicion = 0
  /\ 2 * apoyos[2].posicion = longitud
  /\ apoyos[3].posicion = longitud

\* a downward load symmetric about mid-span: a uniform load on the whole
\* span or a point force at L / 2
SimetricaHaciaAbajo(c) ==
  \/ c.tipo = "CargaUniforme" /\ c.inicio = 0 /\ c.fin = longitud /\ c.intensidad > 0
  \/ c.tipo = "CargaPuntual" /\ 2 * c.posicion = longitud /\ c.magnitud > 0

CargasSimetricas ==
  cargas # <<>> /\ \A i \in 1..Len(cargas) : SimetricaHaciaAbajo(cargas[i])

\* C11: with supports at 0, L / 2 and L and loads symmetric about mid-span,
\* calcular_reacciones returns R_A and R_C equal within 1e-2 N, R_B strictly
\* larger than both (and larger than half of a single centred point force),
\* and reactions that sum to the total load within 1e-3 N.
C11_TresApoyosSimetrica ==
  (DevuelveReacciones /\ TresEquidistantes /\ CargasSimetricas) =>
    /\ QMenorQue(QSub(devuelta(1), devuelta(3)), 2)
    /\ QLt(devuelta(1), devuelta(2))
    /\ QLt(devuelta(3), devuelta(2))
    /\ (Len(cargas) = 1 /\ cargas[1].tipo = "CargaPuntual") =>
         QLt(Frac(BInt(cargas[1].magnitud), BInt(2)), devuelta(2))
    /\ QMenorQue(QSub(suma_reacciones(ret.val), suma_total), 3)

\* the reactions of a uniform load and a centred point force together on
\* three equally spaced supports
C11_Testigo ==
  /\ DevuelveReacciones
  /\ TresEquidistantes
  /\ Len(cargas) = 2
  /\ cargas[1].tipo = "CargaUniforme"
  /\ cargas[2].tipo = "CargaPuntual"
  /\ CargasSimetricas

\* four supports at 0, L / 3, 2 L / 3 and L under one downward point force
\* at mid-span
CuatroEquidistantesCentrada ==
  /\ Len(apoyos) = 4
  /\ apoyos[1].posicion = 0
  /\ 3 * apoyos[2].posicion = longitud
  /\ 3 * apoyos[3].posicion = 2 * longitud
  /\ apoyos[4].posicion = longitud
  /\ Len(cargas) = 1
  /\ cargas[1].tipo = "CargaPuntual"
  /\ cargas[1].magnitud > 0
  /\ 2 * cargas[1].posicion = longitud

MaxApoyosValidacion == 3
MaxCargasValidacion == 1

EscalaValidacion == 2 * EscalaContinua
LongitudValidacion == 6 * EscalaValidacion

ClasesDeCarga == {"CargaPuntual", "CargaMomento", "CargaUniforme", "CargaTrapezoidal"}

\* Apoyo.__post_init__: the exception raised, "" if none
apoyo_post_init(a) == IF a.posicion < 0 THEN "ValueError" ELSE ""

\* __post_init__ of the four classes of loads (magnitudes are whole numbers,
\* so abs(magnitud) < 1e-12 is magnitud = 0)
carga_post_init(c) ==
  CASE c.tipo \in {"CargaPuntual", "CargaMomento"} ->
         IF c.posicion < 0 THEN "ValueError"
         ELSE IF c.magnitud = 0 THEN "ValueError"
         ELSE ""
    [] c.tipo \in {"CargaUniforme", "CargaTrapezoidal"} ->
         IF c.fin <= c.inicio THEN "ValueError" ELSE ""

\* Viga.__post_init__ without the validation of E
viga_post_init_sin_E(L, modulo, inercia, lista, esc) ==
  IF L <= 0 THEN "ValueError"
  ELSE IF inercia <= 0 THEN "ValueError"
  ELSE IF lista # <<>> /\ ~post_init_ok(lista, L, esc) THEN "ValueError"
  ELSE ""

\* Viga.__post_init__ for the arguments of the constructor
viga_post_init(L, modulo, inercia, lista, esc) ==
  IF L <= 0 THEN "ValueError"
  ELSE IF modulo <= 0 THEN "ValueError"
  ELSE IF inercia <= 0 THEN "ValueError"
  ELSE IF lista # <<>> /\ ~post_init_ok(lista, L, esc) THEN "ValueError"
  ELSE ""

Llamada(L, modulo, inercia, lista, cgs) ==
  [longitud |-> L, E |-> modulo, I |-> inercia, apoyos |-> lista, cargas |-> cgs]

\* the calls Viga(longitud, E, I, apoyos=..., cargas=...) of the state machine
LlamadasViga ==
  { Llamada(LongitudValidacion, 2100, 800, <<>>, <<>>),
    Llamada(LongitudValidacion, 2100, 800,
            << Apoyo(10000, "B", EscalaValidacion), Apoyo(2000, "A", EscalaValidacion) >>,
            <<>>),
    Llamada(LongitudValidacion, 2100, 800, <<>>,
            << CargaPuntual(1000, 2 * LongitudValidacion) >>),
    Llamada(1, 2100, 800, <<>>, <<>>),
    Llamada(LongitudValidacion, 2100, 800,
            << Apoyo(0, "A", EscalaValidacion),
               Apoyo(LongitudValidacion + 1, "B", EscalaValidacion) >>, <<>>),
    Llamada(LongitudValidacion, 2100, 800,
            << Apoyo(0, "A", EscalaValidacion), Apoyo(1, "B", EscalaValidacion) >>, <<>>),
    Llamada(0, 2100, 800, <<>>, <<>>),
    Llamada(-LongitudValidacion, 2100, 800, <<>>, <<>>),
    Llamada(LongitudValidacion, 0, 800, <<>>, <<>>),
    Llamada(LongitudValidacion, -2100, 800, <<>>, <<>>),
    Llamada(LongitudValidacion, 2100, 0, <<>>, <<>>),
    Llamada(LongitudValidacion, 2100, -800, <<>>, <<>>) }

\* the state after Viga(...): the fields of the dataclass, the supports
\* replaced by __post_init__ when it does not raise
InitValidacion ==
  \E ll \in LlamadasViga :
    /\ longitud = ll.longitud
    /\ escala = EscalaValidacion
    /\ redondeo = 0
    /\ E = ll.E
    /\ I = ll.I
    /\ cargas = ll.cargas
    /\ _reacciones = None
    /\ _expresiones = None
    /\ _lambdas = None
    /\ \E exc \in {viga_post_init(ll.longitud, ll.E, ll.I, ll.apoyos, EscalaValidacion)} :
         /\ ret = Ret("Viga", exc, None)
         /\ apoyos = IF exc = "" THEN apoyos_iniciales(ll.apoyos, ll.longitud, EscalaValidacion)
                     ELSE ll.apoyos

\* there is an instance: the construction did not raise
Construida == ~(ret.op = "Viga" /\ ret.exc # "")

ApoyosValidacion ==
  { Apoyo(LongitudValidacion \div 2, "C", EscalaValidacion),
    Apoyo(4, "D", EscalaValidacion),
    Apoyo(1, "Y", EscalaValidacion),
    Apoyo(LongitudValidacion + 1, "Z", EscalaValidacion),
    [posicion |-> -1, nombre |-> "N"] }

CargasValidacion ==
  { CargaPuntual(2000, 4000),
    CargaPuntual(500, LongitudValidacion + 1),
    CargaPuntual(0, 4000),
    CargaPuntual(100, -1),
    CargaMomento(1000, LongitudValidacion + 1, TRUE),
    CargaUniforme(3, 2000, LongitudValidacion + 2),
    CargaUniforme(3, -2000, 4000),
    CargaUniforme(0, 0, LongitudValidacion),
    CargaTrapezoidal(1, 2, 4000, 4000) }

\* Apoyo(posicion, nombre)
construir_apoyo(a) ==
  /\ ret' = IF apoyo_post_init(a) = "" THEN Ret("Apoyo", "", a)
            ELSE Ret("Apoyo", apoyo_post_init(a), None)
  /\ UNCHANGED <<geometria, apoyos, cargas, _reacciones, _expresiones, _lambdas>>

\* CargaPuntual(...), CargaMomento(...), CargaUniforme(...), CargaTrapezoidal(...)
construir_carga(c) ==
  /\ ret' = IF carga_post_init(c) = "" THEN Ret(c.tipo, "", c)
            ELSE Ret(c.tipo, carga_post_init(c), None)
  /\ UNCHANGED <<geometria, apoyos, cargas, _reacciones, _expresiones, _lambdas>>

\* the object returned by the constructor that has just run
ApoyoConstruido == ret.op = "Apoyo" /\ ret.exc = ""
CargaConstruida == ret.op \in ClasesDeCarga /\ ret.exc = ""

\* tipo_sistema with the statically determinate case starting at one support
tipo_sistema_desde_uno(n) ==
  IF n < 1 THEN "hipostatico"
  ELSE IF n <= 2 THEN "isostatico"
  ELSE "hiperestatico"

\* Viga.tipo_sistema
tipo_sistema_de(n) ==
  IF n < 2 THEN "hipostatico"
  ELSE IF n = 2 THEN "isostatico"
  ELSE "hiperestatico"

\* Viga.grado_hiperestaticidad
grado_hiperestaticidad_de(n) == n - 2

\* the number of consecutive supports less than 1 mm apart
apoyos_muy_cercanos(aps, esc) ==
  Cardinality({ i \in 1..(Len(aps) - 1) :
                  MuyCercanos(aps[i + 1].posicion, aps[i].posicion, esc) })

\* Viga.validar_sistema: the dictionary returned, the lists of messages and
\* of warnings by their lengths
validar_sistema_de(aps, cgs, esc) ==
  LET n == Len(aps)
      tipo == tipo_sistema_de(n)
  IN  IF n = 0
        THEN [valido |-> FALSE, tipo |-> tipo, grado |-> grado_hiperestaticidad_de(n),
              mensajes |-> 1, advertencias |-> 0]
        ELSE [valido |-> tipo # "hipostatico",
              tipo |-> tipo,
              grado |-> grado_hiperestaticidad_de(n),
              mensajes |-> 1,
              advertencias |-> (IF n = 1 THEN 1 ELSE 0)
                               + (IF tipo = "hiperestatico" THEN 1 ELSE 0)
                               + apoyos_muy_cercanos(aps, esc)
                               + (IF cgs = <<>> THEN 1 ELSE 0)]

tipo_sistema ==
  /\ ret' = Ret("tipo_sistema", "", tipo_sistema_de(Len(apoyos)))
  /\ UNCHANGED <<geometria, apoyos, cargas, _reacciones, _expresiones, _lambdas>>

grado_hiperestaticidad ==
  /\ ret' = Ret("grado_hiperestaticidad", "", grado_hiperestaticidad_de(Len(apoyos)))
  /\ UNCHANGED <<geometria, apoyos, cargas, _reacciones, _expresiones, _lambdas>>

validar_sistema ==
  /\ ret' = Ret("validar_sistema", "", validar_sistema_de(apoyos, cargas, escala))
  /\ UNCHANGED <<geometria, apoyos, cargas, _reacciones, _expresiones, _lambdas>>

\* no distributed load starts before the origin
CargasDesdeCero ==
  \A k \in 1..Len(cargas) : EsDistribuida(cargas[k]) => cargas[k].inicio >= 0

\* every load lies on the beam
CargasDentro ==
  \A k \in 1..Len(cargas) :
    /\ ~fuera_de_la_viga(cargas[k], longitud)
    /\ EsDistribuida(cargas[k]) => cargas[k].inicio >= 0

\* The diagrams are asked only of beams whose loads lie on the beam, and the
\* reactions of a beam with redundant supports only when no distributed load
\* starts before the origin.
NextValidacion ==
  \/ \E a \in ApoyosValidacion : Construida /\ construir_apoyo(a)
  \/ \E c \in CargasValidacion : Construida /\ construir_carga(c)
  \/ ApoyoConstruido /\ Len(apoyos) < MaxApoyosValidacion /\ agregar_apoyo(ret.val)
  \/ Construida /\ limpiar_apoyos
  \/ CargaConstruida /\ Len(cargas) < MaxCargasValidacion /\ agregar_carga(ret.val)
  \/ Construida /\ limpiar_cargas
  \/ Construida /\ tipo_sistema
  \/ Construida /\ grado_hiperestaticidad
  \/ Construida /\ validar_sistema
  \/ Construida /\ (Len(apoyos) <= 2 \/ CargasDesdeCero) /\ calcular_reacciones
  \/ \E np \in PuntosNuevos : Construida /\ CargasDentro /\ evaluar(np)

SpecValidacion == InitValidacion /\ [][NextValidacion]_vars

(***************************************************************************)
(* Claims about construction and validation.                               *)
(***************************************************************************)
Memos == <<_reacciones, _expresiones, _lambdas>>

\* a support the beam must refuse: beyond the end, or less than 1 mm from a
\* support the beam holds
ApoyoInadmisible(a) ==
  \/ a.posicion > longitud
  \/ \E i \in 1..Len(apoyos) : 1000 * AbsI(apoyos[i].posicion - a.posicion) < escala

\* a load the beam must refuse: a force or a couple beyond the end, a
\* distributed load that ends beyond the end
CargaInadmisible(c) ==
  IF c.tipo \in {"CargaPuntual", "CargaMomento"} THEN c.posicion > longitud
  ELSE c.fin > longitud

\* C13: agregar_apoyo raises a ValueError for a support beyond the end of the
\* beam or less than 1 mm from a held one, agregar_carga raises a ValueError
\* for a force or couple beyond the end and for a distributed load that ends
\* beyond the end; a call that raises leaves the supports, the loads and the
\* memoized reactions and expressions as they were.
C13_RechazoSinCambios ==
  [][ /\ (ApoyoConstruido /\ ret'.op = "agregar_apoyo") =>
           /\ ApoyoInadmisible(ret.val) => ret'.exc = "ValueError"
           /\ ret'.exc # "" => UNCHANGED <<apoyos, cargas, Memos>>
      /\ (CargaConstruida /\ ret'.op = "agregar_carga") =>
           /\ CargaInadmisible(ret.val) => ret'.exc = "ValueError"
           /\ ret'.exc # "" => UNCHANGED <<apoyos, cargas, Memos>>
    ]_vars

\* a refused support, on a beam that holds a load and whose reactions and
\* expressions are memoized
C13_Testigo ==
  /\ ret.op = "agregar_apoyo"
  /\ ret.exc = "ValueError"
  /\ cargas # <<>>
  /\ _reacciones # None
  /\ _expresiones # None

\* C14: after the construction and any sequence of agregar_carga and
\* limpiar_cargas, every load held by the beam lies within [0, longitud]:
\* forces and couples have 0 <= posicion <= longitud, distributed loads have
\* 0 <= inicio < fin <= longitud.
C14_CargasEnLaViga ==
  Construida =>
    \A k \in 1..Len(cargas) :
      IF cargas[k].tipo \in {"CargaPuntual", "CargaMomento"}
        THEN 0 <= cargas[k].posicion /\ cargas[k].posicion <= longitud
        ELSE /\ 0 <= cargas[k].inicio
             /\ cargas[k].inicio < cargas[k].fin
             /\ cargas[k].fin <= longitud

\* C15: after the construction, with the default or with explicit supports,
\* and any sequence of agregar_apoyo and limpiar_apoyos, the supports are
\* sorted by ascending position, every position lies in [0, longitud] and
\* any two supports are at least 1 mm apart.
C15_ApoyosValidos ==
  Construida =>
    /\ \A i \in 1..(Len(apoyos) - 1) : apoyos[i].posicion <= apoyos[i + 1].posicion
    /\ \A i \in 1..Len(apoyos) : 0 <= apoyos[i].posicion /\ apoyos[i].posicion <= longitud
    /\ \A i, j \in 1..Len(apoyos) :
         i < j => 1000 * AbsI(apoyos[i].posicion - apoyos[j].posicion) >= escala

\* C16: with n supports tipo_sistema returns "hipostatico" for n < 2,
\* "isostatico" for n = 2 and "hiperestatico" for n > 2,
\* grado_hiperestaticidad returns n - 2, and validar_sistema reports the
\* same tipo and grado with valido true exactly when n >= 2.
C16_Clasificacion ==
  LET n == Len(apoyos)
      tipo == CASE n < 2 -> "hipostatico" [] n = 2 -> "isostatico" [] n > 2 -> "hiperestatico"
  IN  /\ ret.op = "tipo_sistema" => ret.val = tipo
      /\ ret.op = "grado_hiperestaticidad" => ret.val = n - 2
      /\ ret.op = "validar_sistema" =>
           /\ ret.val.tipo = tipo
           /\ ret.val.grado = n - 2
           /\ ret.val.valido = (n >= 2)

\* validar_sistema on a beam with a single support
C16_Testigo ==
  /\ ret.op = "validar_sistema"
  /\ Len(apoyos) = 1
  /\ ret.val.valido = FALSE

\* C17: Viga(...) with longitud <= 0, E <= 0 or I <= 0 raises a ValueError,
\* so no instance has a non-positive length, elastic modulus or second moment
\* of area.
C17_ParametrosPositivos ==
  /\ (ret.op = "Viga" /\ (longitud <= 0 \/ E <= 0 \/ I <= 0)) => ret.exc = "ValueError"
  /\ Construida => (longitud > 0 /\ E > 0 /\ I > 0)

\* a construction refused for its elastic modulus alone
C17_Testigo ==
  /\ ret.op = "Viga"
  /\ ret.exc = "ValueError"
  /\ E <= 0
  /\ longitud > 0
  /\ I > 0
  /\ apoyos = <<>>

\* a load of magnitude zero: a force or couple with magnitud 0, a distributed
\* load whose intensity is 0 all along
CargaNula(c) ==
  CASE c.tipo \in {"CargaPuntual", "CargaMomento"} -> c.magnitud = 0
    [] c.tipo = "CargaUniforme" -> c.intensidad = 0
    [] c.tipo = "CargaTrapezoidal" -> c.intensidad_inicio = 0 /\ c.intensidad_fin = 0

\* C18: every load of magnitude zero is refused with a ValueError by its
\* constructor (CargaPuntual and CargaMomento with |magnitud| < 1e-12,
\* CargaUniforme and CargaTrapezoidal of zero intensity), so that none is
\* created and none is ever held by a beam.
C18_SinCargasNulas ==
  /\ CargaConstruida => ~CargaNula(ret.val)
  /\ \A k \in 1..Len(cargas) : ~CargaNula(cargas[k])

\* the compatibility matrix of the flexibility method for the beam of the
\* current state is singular
MatrizSingular ==
  /\ Len(apoyos) >= 3
  /\ \E q \in {(num_puntos_flex - 1) \div GCD(longitud, num_puntos_flex - 1)} :
     \E red \in {SubSeq(apoyos, 2, Len(apoyos) - 1)} :
       Det(matriz_flexibilidad(<< apoyos[1], apoyos[Len(apoyos)] >>, cargas, red,
                               muestras_cercanas(red, longitud, num_puntos_flex - 1,
                                                 redondeo), q)) = BZero

MaxFilas == 3

ColumnasMaximos == <<"cortante", "momento", "pendiente", "deflexion">>

\* the loop of obtener_maximos over the columns the table holds
obtener_maximos_df(df) ==
  [c \in { ColumnasMaximos[k] : k \in 1..4 } \cap df.columnas |->
     maximo(df.x, df.q, df[c], idxmax_abs(df[c].v, 2, 1))]

ValoresTabla == {-2, 1, 2}

ColumnasPresentes ==
  { {}, {"momento"}, {"cortante", "deflexion"}, {"cortante", "momento", "pendiente"},
    {"cortante", "momento", "pendiente", "deflexion"} }

Columna(f, n) == [v |-> Tup([i \in 1..n |-> BInt(f[i])], n), d |-> BInt(1)]
ColumnaOpuesta(f, n) == [v |-> Tup([i \in 1..n |-> BInt(-f[n + 1 - i])], n), d |-> BInt(1)]

\* a table of n rows at x = 0, 1, ..., n - 1
DataFrame(n, cols, a, b) ==
  [x |-> Tup([i \in 1..n |-> i - 1], n), q |-> 1, columnas |-> cols,
   cortante |-> Columna(a, n), momento |-> Columna(b, n),
   pendiente |-> ColumnaOpuesta(b, n), deflexion |-> ColumnaOpuesta(a, n)]

InitMaximos ==
  /\ longitud = LongitudViga
  /\ escala = Escala
  /\ redondeo = 0
  /\ E = 2100
  /\ I = 800
  /\ apoyos = apoyos_iniciales(<<>>, LongitudViga, Escala)
  /\ cargas = <<>>
  /\ _reacciones = None
  /\ _expresiones = None
  /\ _lambdas = None
  /\ \E n \in 0..MaxFilas : \E cols \in ColumnasPresentes :
     \E a \in [1..n -> ValoresTabla] : \E b \in [1..n -> ValoresTabla] :
       ret = Ret("DataFrame", "", DataFrame(n, cols, a, b))

\* obtener_maximos(df); idxmax of a column without rows raises
obtener_maximos_tabla ==
  /\ ret.op = "DataFrame"
  /\ ret' = IF Len(ret.val.x) = 0 /\ ret.val.columnas # {}
              THEN Ret("obtener_maximos", "ValueError", [df |-> ret.val])
              ELSE Ret("obtener_maximos", "",
                       [df |-> ret.val, maximos |-> obtener_maximos_df(ret.val)])
  /\ UNCHANGED <<geometria, apoyos, cargas, _reacciones, _expresiones, _lambdas>>

NextMaximos == obtener_maximos_tabla

SpecMaximos == InitMaximos /\ [][NextMaximos]_vars

\* the row i of the column c holds the first of the largest absolute values
PrimeraFilaMaxima(df, c, i) ==
  /\ \A j \in 1..Len(df.x) : BLe(BAbs(df[c].v[j]), BAbs(df[c].v[i]))
  /\ \A j \in 1..(i - 1) : BLt(BAbs(df[c].v[j]), BAbs(df[c].v[i]))

\* C20: for each of cortante, momento, pendiente and deflexion that the table
\* holds, obtener_maximos returns the pair (x, value) of the first row whose
\* absolute value is the greatest of the column, the value with its sign and
\* x from the same row; columns the table lacks have no entry.
C20_MaximosAbsolutos ==
  (ret.op = "obtener_maximos" /\ ret.exc = "") =>
    /\ DOMAIN ret.val.maximos = ret.val.df.columnas
    /\ \A c \in ret.val.df.columnas :
         \E i \in 1..Len(ret.val.df.x) :
           /\ PrimeraFilaMaxima(ret.val.df, c, i)
           /\ ret.val.maximos[c].x = ret.val.df.x[i]
           /\ ret.val.maximos[c].valor = Frac(ret.val.df[c].v[i], ret.val.df[c].d)

\* a table whose column momento has its largest absolute value twice, with
\* opposite signs, the negative one first and not in the first row
C20_Testigo ==
  /\ ret.op = "obtener_maximos"
  /\ ret.exc = ""
  /\ "momento" \in ret.val.df.columnas
  /\ "deflexion" \notin ret.val.df.columnas
  /\ ret.val.df.momento.v = << BInt(1), BInt(-2), BInt(2) >>
  /\ ret.val.maximos["momento"].x = 1
  /\ ret.val.maximos["momento"].valor = Frac(BInt(-2), BInt(1))

(***************************************************************************)
(* The grid, V and M of evaluar_por_subtramos.                             *)
(***************************************************************************)
\* the grid point of the position p, in whole units
PuntoDe(res, p) == argmin(res.x, res.q * p)

\* C21: with three supports or more, M returned by evaluar_por_subtramos is
\* exactly 0 at the grid point of every support, the extreme ones and the
\* interior ones, whatever the loads and the reactions.
C21_MomentoNuloEnCadaApoyo ==
  (EvaluadaPorSubtramos /\ Len(apoyos) >= 3) =>
    \A j \in 1..Len(apoyos) :
      /\ ret.val.x[PuntoDe(ret.val, apoyos[j].posicion)] = ret.val.q * apoyos[j].posicion
      /\ ret.val.M.v[PuntoDe(ret.val, apoyos[j].posicion)] = BZero

\* a loaded beam on three supports whose integrated moment did not vanish
\* at the last support before the correction
C21_Testigo ==
  /\ EvaluadaPorSubtramos
  /\ Len(apoyos) >= 3
  /\ cargas # <<>>
  /\ \E k \in 1..Len(ret.val.x) : ret.val.M.v[k] # BZero
  /\ momento(apoyos, cargas, ret.val.x, ret.val.q,
             IntegralMalla(ret.val.V, ret.val.x, ret.val.q),
             BMulE(ret.val.V.d, ret.val.q)).v[
        PuntoDe(ret.val, apoyos[Len(apoyos)].posicion)] # BZero

\* the right end of the beam is supported and no point force acts on it
ExtremoDerechoApoyado ==
  /\ \E j \in 1..Len(apoyos) : apoyos[j].posicion = longitud
  /\ \A i \in 1..Len(cargas) :
       cargas[i].tipo = "CargaPuntual" => cargas[i].posicion # longitud

\* the memoized reactions balance the loads exactly
EquilibrioExacto == QEq(suma_reacciones(_reacciones), suma_total)

\* abs(a[k]) <= 10^-5 N for an array of forces in N
CortanteDespreciable(a, k) == BLe(BMul(BAbs(a.v[k]), BPow10(5)), a.d)

\* C23: when the right end of the beam is supported at x = L, no point force
\* acts at L and the reactions are in exact vertical equilibrium, the last V
\* sample of evaluar_por_subtramos is within 1e-5 N of 0, so that the V(L)
\* warning is given only for reactions out of equilibrium.
C23_CortanteNuloEnL ==
  (EvaluadaPorSubtramos /\ ExtremoDerechoApoyado /\ EquilibrioExacto) =>
    CortanteDespreciable(ret.val.V, Len(ret.val.x))

\* what the half-value step leaves at x = L: minus half the reaction of the
\* support at L, less what the integral of w_total lacks
C23_MitadDeLaReaccion ==
  (EvaluadaPorSubtramos /\ ExtremoDerechoApoyado /\ EquilibrioExacto
     /\ \A i \in 1..Len(cargas) : ~EsDistribuida(cargas[i])) =>
    \A j \in 1..Len(apoyos) :
      apoyos[j].posicion = longitud =>
        QEq(QPor(En(ret.val.V, Len(ret.val.x)), -2), reaccion(j))

\* the critical nodes of the beam of the current state, in whole units
NudosCriticos ==
  {0, longitud} \cup {apoyos[j].posicion : j \in 1..Len(apoyos)}
    \cup UNION {PosicionesDe(cargas[i]) : i \in 1..Len(cargas)}

\* the supports and the discontinuities: what the halos are for
NudosConHalo ==
  {apoyos[j].posicion : j \in 1..Len(apoyos)}
    \cup UNION {PosicionesDe(cargas[i]) : i \in 1..Len(cargas)}

\* the critical nodes next to n, when there are any
NudoAnterior(n) == CHOOSE p \in NudosCriticos : p < n /\ \A r \in NudosCriticos : r < n => r <= p
NudoSiguiente(n) == CHOOSE p \in NudosCriticos : p > n /\ \A r \in NudosCriticos : r > n => r >= p

\* eps = L / min_steps in the units of the grid of res
HaloDe(res) == (res.q * longitud) \div min_steps

EnLaMalla(res, X) == \E k \in 1..Len(res.x) : res.x[k] = X

\* C25: for every support and every discontinuity node the grid of
\* evaluar_por_subtramos holds a sample at eps = L / 2400 before the node and
\* one at eps after it, whenever the position lies on the beam and the
\* stretch to the neighbouring critical node is longer than 2 eps.
C25_HalosEnCadaNudo ==
  EvaluadaPorSubtramos =>
    \A n \in NudosConHalo :
      /\ (n > 0 /\ ret.val.q * (n - NudoAnterior(n)) > 2 * HaloDe(ret.val)) =>
           EnLaMalla(ret.val, ret.val.q * n - HaloDe(ret.val))
      /\ (n < longitud /\ ret.val.q * (NudoSiguiente(n) - n) > 2 * HaloDe(ret.val)) =>
           EnLaMalla(ret.val, ret.val.q * n + HaloDe(ret.val))

\* the halo after a node is always there, and so is the one before a support
C25_HaloPosterior ==
  EvaluadaPorSubtramos =>
    \A n \in NudosConHalo :
      /\ (n < longitud /\ ret.val.q * (NudoSiguiente(n) - n) > 2 * HaloDe(ret.val)) =>
           EnLaMalla(ret.val, ret.val.q * n + HaloDe(ret.val))
      /\ (n > 0 /\ \E j \in 1..Len(apoyos) : apoyos[j].posicion = n) =>
           EnLaMalla(ret.val, ret.val.q * n - HaloDe(ret.val))

\* twice the step with the half value: 0 before, 1 on the point, 2 beyond
DobleEscalon(d) == IF d > 0 THEN 2 ELSE IF d = 0 THEN 1 ELSE 0

\* twice what the reactions and the point forces put in V at the grid
\* position X of res: half of each on its own grid point, nothing before it,
\* all of it beyond
DobleSaltosDeV(res, X) ==
  QSub(Frac(BSum(Tup([j \in 1..Len(apoyos) |->
                        BMulI(_reacciones.val[apoyos[j].nombre],
                              DobleEscalon(X - res.q * apoyos[j].posicion))],
                     Len(apoyos))),
            _reacciones.den),
       Frac(BSum(Tup([i \in 1..Len(cargas) |->
                        IF cargas[i].tipo = "CargaPuntual"
                          THEN BInt(cargas[i].magnitud
                                    * DobleEscalon(X - res.q * cargas[i].posicion))
                          ELSE BZero], Len(cargas))),
            BInt(1)))

\* V is the steps of the reactions and of the point forces minus the
\* cumulative integral iw of w_total; the couples are not in it
CortantePorEscalones(res, iw) ==
  \A k \in 1..Len(res.x) :
    QEq(QPor(QAdd(En(res.V, k), En(iw, k)), 2), DobleSaltosDeV(res, res.x[k]))

\* twice what the couples of the set S of indices put in M at the position X
DobleSaltosDeM(res, X, S) ==
  Frac(BSum(Tup([i \in 1..Len(cargas) |->
                   IF i \in S
                     THEN BMul(BInt(cargas[i].magnitud),
                               BInt(DobleEscalon(X - res.q * cargas[i].posicion)))
                     ELSE BZero], Len(cargas))),
       BInt(1))

\* M is the cumulative integral iv of V plus the steps of the couples of S
MomentoPorEscalones(res, iv, S) ==
  \A k \in 1..Len(res.x) :
    QEq(QPor(QSub(En(res.M, k), En(iv, k)), 2), DobleSaltosDeM(res, res.x[k], S))

Pares == {i \in 1..Len(cargas) : cargas[i].tipo = "CargaMomento"}
ParesConSalto == {i \in Pares : ~EnApoyoSinVano(cargas[i])}

IntegralDeW(res) ==
  IntegralMalla(construir_w_total_continua(cargas, res.x, res.q, longitud), res.x, res.q)

SumaDistribuidas ==
  Frac(BSum(Tup([i \in 1..Len(cargas) |->
                   IF EsDistribuida(cargas[i]) THEN total_load(cargas[i]) ELSE BZero],
                Len(cargas))),
       BInt(6))

\* the cumulative integral of w_total at the last grid point
IntegralTotalDeW(res) == En(IntegralDeW(res), Len(res.x))

\* C30: the cumulative trapezoidal integral of w_total over the whole grid of
\* evaluar_por_subtramos, which is what V has lost at x = L, equals the sum of
\* total_load() over the distributed loads, also for loads that start or end
\* inside the beam.
C30_IntegralDeLaCarga ==
  EvaluadaPorSubtramos => QEq(IntegralTotalDeW(ret.val), SumaDistribuidas)

\* a distributed load alone, away from the supports: the integral differs
\* from total_load() by (w1 - w2) * eps / 2, eps = L / min_steps being the grid
\* step before each of its ends
C30_ErrorEnLosExtremos ==
  (EvaluadaPorSubtramos /\ Len(cargas) = 1 /\ cargas[1].tipo = "CargaTrapezoidal"
     /\ \A j \in 1..Len(apoyos) :
          /\ apoyos[j].posicion # cargas[1].inicio
          /\ apoyos[j].posicion # cargas[1].fin
     /\ 0 < cargas[1].inicio /\ cargas[1].fin < longitud) =>
    QEq(QSub(IntegralTotalDeW(ret.val), SumaDistribuidas),
        Frac(BInt((cargas[1].intensidad_inicio - cargas[1].intensidad_fin) * longitud),
             BInt(2 * min_steps)))

(***************************************************************************)
(* The grid and w_total of evaluar_por_subtramos on beams with cantilevers *)
(* and adjoining distributed loads: a 6 m beam in units of 1/800 m.  The   *)
(* constructor takes the supports and the loads as given: it does not look *)
(* at the loads.                                                           *)
(***************************************************************************)
MaxCargasMalla == 2

ListasMalla ==
  { <<>>,
    << Apoyo(800, "A", EscalaSubtramos), Apoyo(4000, "B", EscalaSubtramos) >>,
    << Apoyo(800, "A", EscalaSubtramos), Apoyo(2400, "B", EscalaSubtramos),
       Apoyo(4000, "C", EscalaSubtramos) >> }

\* the cargas argument of the constructor: none, or a force 1 m beyond the end
CargasIniciales == { <<>>, << CargaPuntual(1000, LongitudSubtramos + 800) >> }

\* 2400 N/m on the first half, a trapezoid from 800 to 4000 N/m on the second
\* half, a couple of 5000 N m at 0.5 m
CargasMalla ==
  { CargaUniforme(3, 0, 2400), CargaTrapezoidal(1, 5, 2400, LongitudSubtramos),
    CargaMomento(4000000, 400, TRUE) }

\* puntos_por_tramo of the evaluations: two coarse grids
PuntosMalla == {12, 7}

InitMalla ==
  /\ longitud = LongitudSubtramos
  /\ escala = EscalaSubtramos
  /\ redondeo = 0
  /\ E = 2100
  /\ I = 800
  /\ \E lista \in ListasMalla :
       /\ post_init_ok(lista, LongitudSubtramos, EscalaSubtramos)
       /\ apoyos = apoyos_iniciales(lista, LongitudSubtramos, EscalaSubtramos)
  /\ cargas \in CargasIniciales
  /\ _reacciones = None
  /\ _expresiones = None
  /\ _lambdas = None
  /\ ret = Ret("Viga", "", None)

NextMalla ==
  \/ \E c \in CargasMalla : Len(cargas) < MaxCargasMalla /\ agregar_carga(c)
  \/ limpiar_cargas
  \/ \E ppt \in PuntosMalla : evaluar_por_subtramos(ppt)

SpecMalla == InitMalla /\ [][NextMalla]_vars

\* M before the correction by spans, from V of the result: the cumulative
\* integral of V plus the jumps of the couples
MomentoIntegrado(res) ==
  IntegralConSaltos(res, IntegralMalla(res.V, res.x, res.q))

\* the grid points outside the stretch between the extreme supports
FueraDeLosApoyos(res) ==
  {k \in 1..Len(res.x) :
     res.x[k] < res.q * PosicionIzquierda \/ res.x[k] > res.q * PosicionDerecha}

\* C22: the correction of M by spans changes M only at grid points between
\* the leftmost and the rightmost support: before the first support and
\* after the last one M stays the cumulative integral of V plus the jumps of
\* the couples, and with exactly two supports no value of M is changed.
C22_CorreccionEntreApoyos ==
  (EvaluadaPorSubtramos /\ Len(apoyos) >= 2) =>
    \E m0 \in {MomentoIntegrado(ret.val)} :
      \A k \in (IF Len(apoyos) = 2 THEN 1..Len(ret.val.x) ELSE FueraDeLosApoyos(ret.val)) :
        QEq(En(ret.val.M, k), En(m0, k))

\* three supports and cantilevers on both sides: M is not zero on either
\* cantilever, and it was changed somewhere between the supports
C22_Testigo ==
  /\ EvaluadaPorSubtramos
  /\ Len(apoyos) = 3
  /\ PosicionIzquierda > 0
  /\ PosicionDerecha < longitud
  /\ ret.val.M.v[2] # BZero
  /\ ret.val.M.v[Len(ret.val.x)] # BZero
  /\ \E m0 \in {MomentoIntegrado(ret.val)} :
       \E k \in 1..Len(ret.val.x) : ~QEq(En(ret.val.M, k), En(m0, k))

\* x is strictly increasing, runs from 0 to longitud, holds every critical
\* node, and the four diagrams are as long as x
MallaBienFormada(res) ==
  /\ \A k \in 1..(Len(res.x) - 1) : res.x[k] < res.x[k + 1]
  /\ res.x[1] = 0
  /\ res.x[Len(res.x)] = res.q * longitud
  /\ \A k \in 1..Len(res.x) : res.x[k] >= 0 /\ res.x[k] <= res.q * longitud
  /\ \A n \in NudosCriticos : EnLaMalla(res, res.q * n)
  /\ Len(res.V.v) = Len(res.x)
  /\ Len(res.M.v) = Len(res.x)
  /\ Len(res.theta.v) = Len(res.x)
  /\ Len(res.deflexion.v) = Len(res.x)

\* C24: the x returned by evaluar_por_subtramos is strictly increasing,
\* starts at 0, ends at longitud, stays within [0, longitud] and contains
\* every critical node; V, M, theta and deflexion are as long as x.
C24_MallaBienFormada ==
  EvaluadaPorSubtramos => MallaBienFormada(ret.val)

\* The same for the beams whose loads all lie on the beam.
C24_MallaConCargasDentro ==
  (EvaluadaPorSubtramos /\ CargasDentro) => MallaBienFormada(ret.val)

\* the position X / Q lies in [inicio, fin) of c, or at fin when the load
\* ends where the beam ends
Contiene(c, X, Q) ==
  /\ EsDistribuida(c)
  /\ Q * c.inicio <= X
  /\ \/ X < Q * c.fin
     \/ X = Q * c.fin /\ c.fin = longitud

\* the intensity of c at X / Q, interpolated between its ends
Intensidad(c, X, Q) ==
  IF c.tipo = "CargaUniforme"
    THEN Frac(BInt(c.intensidad), BInt(1))
    ELSE Frac(BInt(c.intensidad_inicio * (Q * c.fin - X)
                     + c.intensidad_fin * (X - Q * c.inicio)),
              BInt(Q * (c.fin - c.inicio)))

\* the sum of the intensities at X / Q of the first n loads that contain it
RECURSIVE SumaDeIntensidades(_, _, _)
SumaDeIntensidades(n, X, Q) ==
  IF n = 0 THEN Frac(BZero, BInt(1))
  ELSE IF Contiene(cargas[n], X, Q)
         THEN QAdd(SumaDeIntensidades(n - 1, X, Q), Intensidad(cargas[n], X, Q))
         ELSE SumaDeIntensidades(n - 1, X, Q)

\* w_total on the grid of a result
WTotalDe(res) == construir_w_total_continua(cargas, res.x, res.q, longitud)

\* C26: at every position w_total is the sum of the linearly interpolated
\* intensities of exactly the distributed loads whose interval [inicio, fin)
\* (closed at fin only when fin is the beam length) contains it; point forces
\* and couples contribute nothing, and where one load ends and the next
\* starts only the one starting there counts.
C26_CargaEnIntervalos ==
  EvaluadaPorSubtramos =>
    \E w \in {WTotalDe(ret.val)} :
      \A k \in 1..Len(ret.val.x) :
        QEq(En(w, k), SumaDeIntensidades(Len(cargas), ret.val.x[k], ret.val.q))

\* a uniform load of 3 ending at 3 m where a trapezoid from 1 to 5 starts:
\* at 3 m w_total is 1, and 5 at the end of the beam
C26_Testigo ==
  /\ EvaluadaPorSubtramos
  /\ \E i, j \in 1..Len(cargas) :
       /\ cargas[i] = CargaUniforme(3, 0, 2400)
       /\ cargas[j] = CargaTrapezoidal(1, 5, 2400, LongitudSubtramos)
  /\ \E w \in {WTotalDe(ret.val)} :
       /\ QEq(En(w, PuntoDe(ret.val, 2400)), Frac(BInt(1), BInt(1)))
       /\ QEq(En(w, Len(ret.val.x)), Frac(BInt(5), BInt(1)))
       /\ QEq(En(w, 1), Frac(BInt(3), BInt(1)))

(***************************************************************************)
(* The keys of the mapping of reactions.                                   *)
(***************************************************************************)

\* the names of the supports are pairwise different
NombresDistintos ==
  \A i, j \in 1..Len(apoyos) : apoyos[i].nombre = apoyos[j].nombre => i = j

\* C28: the mapping returned by calcular_reacciones has exactly one entry per
\* support: as many keys as supports, one under each support's name, also
\* for supports with default names and for supports given equal names.
C28_UnaEntradaPorApoyo ==
  DevuelveReacciones =>
    /\ Cardinality(DOMAIN ret.val.val) = Len(apoyos)
    /\ \A j \in 1..Len(apoyos) : apoyos[j].nombre \in DOMAIN ret.val.val

\* The keys are the set of names: one entry per support exactly when the
\* names differ.
C28_UnaEntradaPorNombre ==
  DevuelveReacciones =>
    /\ DOMAIN ret.val.val = {apoyos[j].nombre : j \in 1..Len(apoyos)}
    /\ NombresDistintos <=> Cardinality(DOMAIN ret.val.val) = Len(apoyos)

(***************************************************************************)
(* CargaTrapezoidal.total_load and moment_about on their own: every        *)
(* trapezoid with intensities in -MaxIntensidad..MaxIntensidad on an       *)
(* interval of 0..MaxPosicion, about every origin of 0..MaxPosicion.       *)
(***************************************************************************)
MaxIntensidad == 2
MaxPosicion == 3

Trapecios ==
  { CargaTrapezoidal(w1, w2, inicio, fin) :
      w1 \in -MaxIntensidad..MaxIntensidad, w2 \in -MaxIntensidad..MaxIntensidad,
      inicio \in 0..(MaxPosicion - 1), fin \in 1..MaxPosicion }

\* CargaTrapezoidal.__post_init__: fin > inicio
InitMomentos ==
  /\ longitud = MaxPosicion
  /\ escala = 1
  /\ redondeo = 0
  /\ E = 2100
  /\ I = 800
  /\ apoyos = apoyos_iniciales(<<>>, MaxPosicion, 1)
  /\ cargas = <<>>
  /\ _reacciones = None
  /\ _expresiones = None
  /\ _lambdas = None
  /\ \E c \in Trapecios : \E origen \in 0..MaxPosicion :
       /\ c.fin > c.inicio
       /\ ret = Ret("CargaTrapezoidal", "", [carga |-> c, origen |-> origen])

\* carga.moment_about(origen), six times its value
llamar_moment_about ==
  /\ ret.op = "CargaTrapezoidal"
  /\ ret' = Ret("moment_about", "",
                [carga |-> ret.val.carga, origen |-> ret.val.origen,
                 valor |-> moment_about(ret.val.carga, ret.val.origen)])
  /\ UNCHANGED <<geometria, apoyos, cargas, _reacciones, _expresiones, _lambdas>>

\* carga.total_load(), six times its value
llamar_total_load ==
  /\ ret.op = "CargaTrapezoidal"
  /\ ret' = Ret("total_load", "",
                [carga |-> ret.val.carga, origen |-> ret.val.origen,
                 valor |-> total_load(ret.val.carga)])
  /\ UNCHANGED <<geometria, apoyos, cargas, _reacciones, _expresiones, _lambdas>>

NextMomentos ==
  \/ llamar_moment_about
  \/ llamar_total_load

SpecMomentos == InitMomentos /\ [][NextMomentos]_vars

\* six times the integral of w(x) * (x - origen) over [inicio, fin]:
\* 3 L (w1 + w2) (inicio - origen) + L^2 (w1 + 2 w2)
IntegralDelMomento(c, origen) ==
  BInt(3 * (c.fin - c.inicio) * (c.intensidad_inicio + c.intensidad_fin)
         * (c.inicio - origen)
       + (c.fin - c.inicio) * (c.fin - c.inicio)
         * (c.intensidad_inicio + 2 * c.intensidad_fin))

\* C29: for every CargaTrapezoidal, of intensities of either sign and about
\* any origin, moment_about(origen) is the moment of the linearly varying
\* load, L (w1 + w2) / 2 (inicio - origen) + L^2 (w1 + 2 w2) / 6.
C29_MomentoDelTrapecio ==
  ret.op = "moment_about" =>
    ret.val.valor = IntegralDelMomento(ret.val.carga, ret.val.origen)

\* The moment is the integral unless the intensities are opposite and not
\* zero, and then moment_about returns 0 whereas the integral is L^2 w2 / 6.
C29_MomentoSalvoOpuestas ==
  ret.op = "moment_about" =>
    IF ret.val.carga.intensidad_inicio + ret.val.carga.intensidad_fin = 0
         /\ ret.val.carga.intensidad_fin # 0
      THEN /\ ret.val.valor = BZero
           /\ IntegralDelMomento(ret.val.carga, ret.val.origen)
                = BInt((ret.val.carga.fin - ret.val.carga.inicio)
                         * (ret.val.carga.fin - ret.val.carga.inicio)
                         * ret.val.carga.intensidad_fin)
      ELSE ret.val.valor = IntegralDelMomento(ret.val.carga, ret.val.origen)

\* total_load is the area of the trapezoid, L (w1 + w2) / 2
C29_CargaTotal ==
  ret.op = "total_load" =>
    ret.val.valor = BInt(3 * (ret.val.carga.fin - ret.val.carga.inicio)
                           * (ret.val.carga.intensidad_inicio
                                + ret.val.carga.intensidad_fin))

====
